---------------------------- MODULE Spec2Model ----------------------------
(***************************************************************************)
(* Flow control of the light client protocol (package les/flowcontrol):    *)
(* the server side ClientNode and ClientManager, and the client side       *)
(* ServerNode.                                                             *)
(*                                                                         *)
(* Time is counted in units of 500 microseconds, so that the durations of  *)
(* the source (nanoseconds) stay small: time.Millisecond is 2 units and    *)
(* 2 * time.Second is 4000 units.  Every integer division of the source is *)
(* kept, with its truncation.                                              *)
(***************************************************************************)
EXTENDS Integers, Sequences, FiniteSets, TLC

VARIABLES clock, node, cm, ch, reqs, ret, sn, reqQ, replyQ, hist, vip

vars == <<clock, node, cm, ch, reqs, ret, sn, reqQ, replyQ, hist, vip>>

----------------------------------------------------------------------------
(* Program constants, in model time units.                                 *)

\* fcTimeConst = time.Millisecond
fcTimeConst == 2
\* DecParamDelay = time.Second * 2
DecParamDelay == 4000
\* safetyMargin = time.Millisecond
safetyMargin == 2
\* the literal 1000000 of the shared integrator: nanoseconds per fcTimeConst
rcTimeConst == 2
\* the scale of a serving queue priority: 1000000000 * bufValue / BufLimit
prioScale == 1000000000

----------------------------------------------------------------------------
(* Bounds of the model.                                                    *)

\* ClientNodes of the manager
NumNodes == 3
\* requests accepted in one run of the manager
MaxReqs == 3
\* requests accepted in one run of a single node
NodeMaxReqs == 2
\* last clock value of the fine grained clock
MaxClock == 2
\* the coarse clock visits k * DecParamDelay + j, k <= MaxPeriods, |j| <= MaxJitter
MaxPeriods == 1
MaxJitter == 1
\* MinRecharge values 1 .. MaxRecharge
MaxRecharge == 3
\* UpdateParams calls in one run, without and with requests
MaxUpdates == 3
NodeMaxUpdates == 2
\* BufLimit values of the single node runs
SmallBufLimit == 2
LargeBufLimit == 4
\* the greatest declared cost of a request of the single node runs
MaxCost == 3
\* start tokens and channels
MaxTokens == 3
\* BufLimit of the nodes of the manager runs
ManagerBufLimit == 10
\* totalRecharge of the manager
TotalRecharge == 2
\* the last time of the runs of an idle node and the times its clock goes back
MaxIdleClock == 6
RechargeParallelReqs == 2
ScenarioMaxClock == 40
ShareMaxClock == 4
MaxBenchCost == 7
MaxBenchCount == 4
ScenarioStep == 10
MaxRegress == 2
\* the last time of the runs of one ServerNode
MaxServerClock == 4
\* the clients of the pool, the updateBw hooks and the calls on the pool
NumClients == 2
NumHooks == 2
MaxCalls == 5

Nodes == 1 .. NumNodes

----------------------------------------------------------------------------
(* Arithmetic of the source.                                               *)

\* Go's integer division and float to integer conversion truncate toward zero
TruncDiv(a, b) == IF a >= 0 THEN a \div b ELSE -((-a) \div b)

\* unsigned 64 bit addition and subtraction wrap around; Uint64Mod stands for 2^64
Uint64Mod == 65536
Uint64Add(a, b) == (a + b) % Uint64Mod
Uint64Sub(a, b) == (a - b + Uint64Mod) % Uint64Mod

Min(a, b) == IF a < b THEN a ELSE b
Max(a, b) == IF a > b THEN a ELSE b

\* a * b / c for a, b >= 0 and c > 0, without an intermediate product above a
MulDiv(a, b, c) == (a \div c) * b + ((a % c) * b) \div c

----------------------------------------------------------------------------
(* ServerParams and ClientNode (control.go).                               *)

ServerParams(bufLimit, minRecharge) ==
  [BufLimit |-> bufLimit, MinRecharge |-> minRecharge]

\* NewClientNode, before cm.init(node)
NewClientNodeFields(params, time) ==
  [ created        |-> TRUE,
    params         |-> params,
    bufValue       |-> params.BufLimit,
    lastTime       |-> time,
    updateSchedule |-> << >>,
    sumCost        |-> 0,
    accepted       |-> << >>,
    servingStarted |-> 0,
    servingMaxCost |-> 0,
    corrBufValue   |-> 0,
    rcLastIntValue |-> 0 ]

\* a ClientNode that NewClientNode has not made yet
NoClientNode ==
  [ created        |-> FALSE,
    params         |-> ServerParams(1, 1),
    bufValue       |-> 0,
    lastTime       |-> 0,
    updateSchedule |-> << >>,
    sumCost        |-> 0,
    accepted       |-> << >>,
    servingStarted |-> 0,
    servingMaxCost |-> 0,
    corrBufValue   |-> 0,
    rcLastIntValue |-> 0 ]

\* the elapsed time recalcBV integrates over
\* dt of an integration that takes a clock that went back for time passed
recalcBVdtAbs(peer, time) ==
  IF time < peer.lastTime THEN peer.lastTime - time ELSE time - peer.lastTime

recalcBVdt(peer, time) == IF time < peer.lastTime THEN 0 ELSE time - peer.lastTime

\* recalcBV without the cut at BufLimit
recalcBVUnbounded(peer, time) ==
  [peer EXCEPT !.bufValue = @ + (peer.params.MinRecharge * recalcBVdt(peer, time))
                                  \div fcTimeConst,
               !.lastTime = time]

recalcBV(peer, time) ==
  LET dt == recalcBVdt(peer, time)
      bv == peer.bufValue + (peer.params.MinRecharge * dt) \div fcTimeConst
  IN  [peer EXCEPT !.bufValue = IF bv > peer.params.BufLimit
                                THEN peer.params.BufLimit ELSE bv,
                   !.lastTime = time]

\* ClientManager.updateParams is called by ClientNode.updateParams and is not
\* part of the sources: it is taken to install the new parameters
cmUpdateParams(peer, params, time) == [peer EXCEPT !.params = params]

\* the buffer value after a change of BufLimit
updateParamsBufValue(peer, params) ==
  IF params.BufLimit - peer.params.BufLimit > 0
  THEN peer.bufValue + (params.BufLimit - peer.params.BufLimit)
  ELSE IF peer.bufValue > params.BufLimit THEN params.BufLimit
       ELSE peer.bufValue

updateParams(peer, params, time) ==
  cmUpdateParams([peer EXCEPT !.bufValue = updateParamsBufValue(peer, params)],
                 params, time)

RECURSIVE applySchedule(_, _)
applySchedule(peer, time) ==
  IF Len(peer.updateSchedule) > 0 /\ peer.updateSchedule[1].time <= time
  THEN LET p1 == recalcBV(peer, peer.updateSchedule[1].time)
           p2 == updateParams(p1, peer.updateSchedule[1].params, time)
       IN  applySchedule([p2 EXCEPT !.updateSchedule = Tail(@)], time)
  ELSE peer

\* update that applies the schedule and adds no recharge
updateScheduleOnly(peer, time) == [applySchedule(peer, time) EXCEPT !.lastTime = time]

update(peer, time) == recalcBV(applySchedule(peer, time), time)

\* a search of the schedule that finds no entry
scheduleMatchNone(sched, params, i) == 0

\* the first index i with params.MinRecharge >= updateSchedule[i].params.MinRecharge,
\* 0 when there is none
RECURSIVE scheduleMatch(_, _, _)
scheduleMatch(sched, params, i) ==
  IF i > Len(sched) THEN 0
  ELSE IF params.MinRecharge >= sched[i].params.MinRecharge THEN i
  ELSE scheduleMatch(sched, params, i + 1)

\* UpdateParams scheduling a decrease with no delay
UpdateParamsBodyNoDelay(peer, params, time) ==
  IF params.MinRecharge >= peer.params.MinRecharge
  THEN updateParams([peer EXCEPT !.updateSchedule = << >>], params, time)
  ELSE [peer EXCEPT !.updateSchedule = Append(@, [time |-> time, params |-> params])]

\* UpdateParams after peer.update(time).  In the loop "s" is a copy of the
\* entry, so "s.params = params" leaves updateSchedule[i] as it was.
UpdateParamsBody(peer, params, time) ==
  IF params.MinRecharge >= peer.params.MinRecharge
  THEN updateParams([peer EXCEPT !.updateSchedule = << >>], params, time)
  ELSE LET i == scheduleMatch(peer.updateSchedule, params, 1)
       IN  IF i > 0
           THEN [peer EXCEPT !.updateSchedule = SubSeq(@, 1, i)]
           ELSE [peer EXCEPT !.updateSchedule =
                   Append(@, [time |-> time + DecParamDelay, params |-> params])]

ClientNodeUpdateParams(peer, params, time) ==
  UpdateParamsBody(update(peer, time), params, time)

----------------------------------------------------------------------------
(* ClientManager.  Its operations read and write the manager, the nodes'   *)
(* cmNodeFields and the channels of the start tokens: they are operators   *)
(* on a record w = [cm, node, ch] of the three.                            *)

\* NewClientManager; child: whether the manager has a child manager
NewClientManager(maxParallelReqs, totalRecharge, child) ==
  [ hasChild        |-> child,
    childEnabled    |-> TRUE,
    nodes           |-> {},
    nodesNil        |-> FALSE,
    enabled         |-> TRUE,
    parallelReqs    |-> 0,
    maxParallelReqs |-> maxParallelReqs,
    servingQueue    |-> << >>,
    totalRecharge   |-> totalRecharge,
    sumRecharge     |-> 0,
    rcLastUpdate    |-> 0,
    rcLastIntValue  |-> 0,
    rcQueue         |-> << >> ]

\* prque: the position of the first item of greatest priority, 0 when empty
RECURSIVE prqueTop(_, _, _)
prqueTop(q, i, best) ==
  IF i > Len(q) THEN best
  ELSE IF best = 0 \/ q[i].prio > q[best].prio THEN prqueTop(q, i + 1, i)
  ELSE prqueTop(q, i + 1, best)

prqueRemove(q, i) == SubSeq(q, 1, i - 1) \o SubSeq(q, i + 1, Len(q))

\* child.setEnabled(en) of a child without a child of its own
childSetEnabled(m, en) == [m EXCEPT !.childEnabled = en]

\* setEnabled that leaves the child as it is
setEnabledAlone(m, en) == [m EXCEPT !.enabled = en]

setEnabled(m, en) ==
  IF m.enabled = en THEN m
  ELSE LET m1 == [m EXCEPT !.enabled = en]
       IN  IF m1.hasChild /\ m1.parallelReqs = 0 THEN childSetEnabled(m1, en)
           ELSE m1

\* setParallelReqs that leaves the child as it is
setParallelReqsAlone(m, p, time) == [m EXCEPT !.parallelReqs = p]

setParallelReqs(m, p, time) ==
  IF p = m.parallelReqs THEN m
  ELSE LET m1 == IF m.hasChild /\ m.enabled /\ m.parallelReqs = 0
                 THEN childSetEnabled(m, FALSE) ELSE m
           m2 == IF m.hasChild /\ m.enabled /\ p = 0
                 THEN childSetEnabled(m1, TRUE) ELSE m1
       IN  [m2 EXCEPT !.parallelReqs = p]

\* node.rcLastIntValue + (BufLimit - corrBufValue) * 1000000 / MinRecharge
rcNextIntValue(base, nd) ==
  base + TruncDiv((nd.params.BufLimit - nd.corrBufValue) * rcTimeConst,
                  nd.params.MinRecharge)

\* the integrator advanced to time with the present slope:
\* rcLastIntValue += int64(slope * float64(dt)), slope = totalRecharge / sumRecharge
updateRechargeIntegrate(w, time) ==
  [w EXCEPT !.cm.rcLastIntValue =
               @ + TruncDiv(w.cm.totalRecharge * (time - w.cm.rcLastUpdate),
                            w.cm.sumRecharge),
            !.cm.rcLastUpdate = time]

\* dtNext = AbsTime(float64(nextIntValue - rcLastIntValue) / slope)
updateRechargeDtNext(m, nextIntValue) ==
  TruncDiv((nextIntValue - m.rcLastIntValue) * m.sumRecharge, m.totalRecharge)

\* the promotion of a node that leaves sumRecharge as it is
updateRechargePromoteKeepSum(w, n, nextIntValue, dtNext) ==
  [w EXCEPT !.node[n].corrBufValue =
               IF @ < w.node[n].params.BufLimit THEN w.node[n].params.BufLimit ELSE @,
            !.cm.rcLastUpdate = @ + dtNext,
            !.cm.rcLastIntValue = nextIntValue]

\* the popped node n reaches its BufLimit at nextIntValue
updateRechargePromote(w, n, nextIntValue, dtNext) ==
  [w EXCEPT !.node[n].corrBufValue =
               IF @ < w.node[n].params.BufLimit THEN w.node[n].params.BufLimit ELSE @,
            !.cm.sumRecharge =
               IF w.node[n].corrBufValue < w.node[n].params.BufLimit
               THEN Uint64Sub(@, w.node[n].params.MinRecharge) ELSE @,
            !.cm.rcLastUpdate = @ + dtNext,
            !.cm.rcLastIntValue = nextIntValue]

\* one pass of the loop of updateRecharge with a queue that is not empty; w is
\* the state after rcQueue.Pop() gave item.  again: whether the loop goes on
updateRechargeItem(w, time, item, dtNext) ==
  IF time - w.cm.rcLastUpdate < dtNext
  THEN [again |-> FALSE,
        w |-> updateRechargeIntegrate(
                [w EXCEPT !.cm.rcQueue = Append(@, item)], time)]
  ELSE IF rcNextIntValue(w.node[item.n].rcLastIntValue, w.node[item.n]) # -(item.prio)
  THEN [again |-> TRUE,
        w |-> [w EXCEPT !.cm.rcQueue =
                 Append(@, [n |-> item.n,
                            prio |-> -rcNextIntValue(w.node[item.n].rcLastIntValue,
                                                     w.node[item.n])])]]
  ELSE [again |-> TRUE,
        w |-> updateRechargePromote(w, item.n, -(item.prio), dtNext)]

\* one pass of the loop of updateRecharge; top: the position of the item Pop gives
updateRechargePass(w, time, top) ==
  IF top = 0
  THEN [again |-> FALSE, w |-> updateRechargeIntegrate(w, time)]
  ELSE updateRechargeItem([w EXCEPT !.cm.rcQueue = prqueRemove(@, top)], time,
                          w.cm.rcQueue[top],
                          updateRechargeDtNext(w.cm, -(w.cm.rcQueue[top].prio)))

RECURSIVE updateRecharge(_, _)
updateRechargeLoop(r, time) == IF r.again THEN updateRecharge(r.w, time) ELSE r.w

updateRecharge(w, time) ==
  IF w.cm.sumRecharge > 0
  THEN updateRechargeLoop(updateRechargePass(w, time, prqueTop(w.cm.rcQueue, 1, 0)), time)
  ELSE w

\* the mirror of a node that is not full, integrated to the manager's rcLastIntValue
updateNodeRcIntegrated(nd, m) ==
  Min(nd.params.BufLimit,
      nd.corrBufValue
        + TruncDiv((m.rcLastIntValue - nd.rcLastIntValue) * nd.params.MinRecharge,
                   rcTimeConst))

\* updateNodeRc after updateRecharge; corr is the mirror after "corrBufValue += bvc"
\* and the cut at 0
updateNodeRcApply(w, n, wasFull, corr) ==
  LET limit  == w.node[n].params.BufLimit
      rate   == w.node[n].params.MinRecharge
      isFull == corr >= limit
  IN  [w EXCEPT
         !.node[n].corrBufValue = IF isFull THEN limit ELSE corr,
         !.node[n].rcLastIntValue = IF wasFull /\ isFull THEN @ ELSE w.cm.rcLastIntValue,
         !.cm.sumRecharge = IF wasFull /\ ~isFull THEN Uint64Add(@, rate)
                            ELSE IF ~wasFull /\ isFull THEN Uint64Sub(@, rate)
                            ELSE @,
         !.cm.rcQueue = IF wasFull /\ ~isFull
                        THEN Append(@, [n |-> n,
                                        prio |-> -(w.cm.rcLastIntValue
                                                   + TruncDiv((limit - corr) * rcTimeConst, rate))])
                        ELSE @]

updateNodeRcNode(w, n, bvc) ==
  updateNodeRcApply(w, n,
    w.node[n].corrBufValue = w.node[n].params.BufLimit,
    Max(0, bvc + (IF w.node[n].corrBufValue = w.node[n].params.BufLimit
                  THEN w.node[n].corrBufValue
                  ELSE updateNodeRcIntegrated(w.node[n], w.cm))))

updateNodeRc(w, n, bvc, time) == updateNodeRcNode(updateRecharge(w, time), n, bvc)

addNode(w, n) ==
  [w EXCEPT !.node[n].corrBufValue = w.node[n].params.BufLimit,
            !.node[n].rcLastIntValue = w.cm.rcLastIntValue,
            !.cm.nodes = IF w.cm.nodesNil THEN @ ELSE @ \cup {n}]

removeNode(w, n) ==
  [w EXCEPT !.cm.nodes = IF w.cm.nodesNil THEN @ ELSE @ \ {n}]

Stop(w) == [w EXCEPT !.cm.nodes = {}, !.cm.nodesNil = TRUE]

\* the priority of the emptier buffer first
servingPriorityEmptiest(bufValue, bufLimit) == -MulDiv(prioScale, bufValue, bufLimit)

\* int64(1000000000 * float64(node.bufValue) / float64(node.params.BufLimit))
servingPriority(bufValue, bufLimit) == MulDiv(prioScale, bufValue, bufLimit)

\* accept; tok names the start token and its channel.  The result is nil
\* (ch[tok] stays "nil") or the channel of the token (ch[tok] = "empty")
accept(w, n, tok, maxCost, time) ==
  IF w.cm.parallelReqs = w.cm.maxParallelReqs
  THEN [w EXCEPT !.ch[tok] = "empty",
                 !.cm.servingQueue =
                    Append(@, [tok |-> tok, n |-> n,
                               prio |-> servingPriority(w.node[n].bufValue,
                                                        w.node[n].params.BufLimit)])]
  ELSE updateNodeRc([w EXCEPT !.cm = setParallelReqs(@, @.parallelReqs + 1, time),
                              !.node[n].servingStarted = time,
                              !.node[n].servingMaxCost = maxCost],
                    n, -maxCost, time)

started(w, n, maxCost, time) ==
  updateNodeRc([w EXCEPT !.node[n].servingStarted = time,
                         !.node[n].servingMaxCost = maxCost],
               n, -maxCost, time)

\* uint64(time - node.servingStarted), cut to servingMaxCost: a negative
\* difference wraps around to a value above every servingMaxCost
processedRealCost(nd, time) ==
  IF time < nd.servingStarted THEN nd.servingMaxCost
  ELSE IF time - nd.servingStarted > nd.servingMaxCost THEN nd.servingMaxCost
  ELSE time - nd.servingStarted

\* the start token telling true whether or not its node is a member
processedCallAlwaysTrue(w, top, item) ==
  [w EXCEPT !.cm.servingQueue = prqueRemove(@, top),
            !.ch[item.tok] = "true"]

\* the start token item is popped and called: it tells its channel whether its
\* node is still in cm.nodes
processedCall(w, top, item) ==
  [w EXCEPT !.cm.servingQueue = prqueRemove(@, top),
            !.ch[item.tok] = IF item.n \in w.cm.nodes THEN "true" ELSE "false"]

\* the loop of processed giving up the slot although a token was started
processedPopAtRelease(w, time, top) ==
  [processedCall(w, top, w.cm.servingQueue[top])
     EXCEPT !.cm = setParallelReqs(@, @.parallelReqs - 1, time)]

\* processed keeping the slot when the serving queue is exhausted
processedPopKeepSlot(w, time) ==
  IF Len(w.cm.servingQueue) = 0
  THEN w
  ELSE processedCall(w, prqueTop(w.cm.servingQueue, 1, 0),
                     w.cm.servingQueue[prqueTop(w.cm.servingQueue, 1, 0)])

\* the loop of processed over the serving queue
RECURSIVE processedPop(_, _)
processedPopAt(w, time, top) ==
  IF w.cm.servingQueue[top].n \in w.cm.nodes
  THEN processedCall(w, top, w.cm.servingQueue[top])
  ELSE processedPop(processedCall(w, top, w.cm.servingQueue[top]), time)

processedPop(w, time) ==
  IF Len(w.cm.servingQueue) = 0
  THEN [w EXCEPT !.cm = setParallelReqs(@, @.parallelReqs - 1, time)]
  ELSE processedPopAt(w, time, prqueTop(w.cm.servingQueue, 1, 0))

\* the lift adding the mirror to the buffer value
processedLiftSum(nd) == nd.corrBufValue + nd.bufValue

\* the buffer value of the node after the manager has compared it with its mirror
processedLift(nd) ==
  IF nd.corrBufValue > nd.bufValue THEN nd.corrBufValue ELSE nd.bufValue

\* processed up to the refund of servingMaxCost - realCost to the mirror
processedRefund(w, n, time) ==
  updateNodeRc(w, n, w.node[n].servingMaxCost - processedRealCost(w.node[n], time), time)

\* processed without the comparison of the buffer value with the mirror
processedLiftedNever(w, n) == [w EXCEPT !.out.lifted = FALSE]

\* out.lifted tells whether the mirror was above the buffer value
processedLifted(w, n) ==
  [w EXCEPT !.node[n].bufValue = processedLift(w.node[n]),
            !.out.lifted = w.node[n].corrBufValue > w.node[n].bufValue]

processed(w, n, time) ==
  processedPop(processedLifted(processedRefund(w, n, time), n), time)

----------------------------------------------------------------------------
(* The calls of ClientNode into the manager that are not among the sources *)
(* (cm.init, cm.accepted, cm.processed with four arguments): each stands   *)
(* for the manager operation the design describes for it.                  *)

cmInit(w, n) == addNode(w, n)
cmAccepted(w, n, tok, maxCost, time) == accept(w, n, tok, maxCost, time)
cmProcessed(w, n, time) == processed(w, n, time)

----------------------------------------------------------------------------
(* ClientNode.AcceptRequest and ClientNode.RequestProcessed.  What an      *)
(* operation returns is left in w.out.                                     *)

NewClientNode(w, n, params, time) ==
  cmInit([w EXCEPT !.node[n] = NewClientNodeFields(params, time)], n)

\* an accepted request that records the sum of costs before its own
AcceptRequestDebitOldSum(peer, index, maxCost) ==
  [peer EXCEPT !.bufValue = @ - maxCost,
               !.sumCost = @ + maxCost,
               !.accepted = (index :> peer.sumCost) @@ @]

\* the node after lines 154-159 of an accepted request
AcceptRequestDebit(peer, index, maxCost) ==
  [peer EXCEPT !.bufValue = @ - maxCost,
               !.sumCost = @ + maxCost,
               !.accepted = (index :> (peer.sumCost + maxCost)) @@ @]

\* AcceptRequest counting the cost of a request before it compares it with
\* the buffer value
AcceptRequestBodyCountFirst(w, n, index, maxCost, time) ==
  IF maxCost > w.node[n].bufValue
  THEN [w EXCEPT !.node[n].sumCost = @ + maxCost,
                 !.out.accepted = FALSE,
                 !.out.bufShort = maxCost - w.node[n].bufValue]
  ELSE cmAccepted([w EXCEPT !.node[n] = AcceptRequestDebit(@, index, maxCost),
                            !.out.accepted = TRUE,
                            !.out.bufShort = 0],
                  n, index, maxCost, time)

\* AcceptRequest after peer.update(time)
AcceptRequestBody(w, n, index, maxCost, time) ==
  IF maxCost > w.node[n].bufValue
  THEN [w EXCEPT !.out.accepted = FALSE,
                 !.out.bufShort = maxCost - w.node[n].bufValue]
  ELSE cmAccepted([w EXCEPT !.node[n] = AcceptRequestDebit(@, index, maxCost),
                            !.out.accepted = TRUE,
                            !.out.bufShort = 0],
                  n, index, maxCost, time)

AcceptRequest(w, n, index, maxCost, time) ==
  AcceptRequestBody([w EXCEPT !.node[n] = update(@, time)], n, index, maxCost, time)

\* peer.accepted[index]: a Go map yields 0 for a key it does not hold
acceptedAt(peer, index) ==
  IF index \in DOMAIN peer.accepted THEN peer.accepted[index] ELSE 0

\* the reply reporting the buffer value itself
RequestProcessedBvPlain(peer, index) == peer.bufValue

\* bv = peer.bufValue + peer.sumCost - peer.accepted[index]
RequestProcessedBv(peer, index) ==
  peer.bufValue + peer.sumCost - acceptedAt(peer, index)

\* RequestProcessed after peer.cm.processed
RequestProcessedReply(w, n, index) ==
  [w EXCEPT !.out.bv = RequestProcessedBv(w.node[n], index),
            !.node[n].accepted = [i \in DOMAIN @ \ {index} |-> @[i]]]

RequestProcessed(w, n, index, time) ==
  RequestProcessedReply(cmProcessed([w EXCEPT !.node[n] = update(@, time)], n, time),
                        n, index)

----------------------------------------------------------------------------
(* ServerNode (control.go), the client's estimate of its buffer.           *)

NewServerNode(params, time) ==
  [ bufEstimate |-> params.BufLimit,
    bufRecharge |-> FALSE,
    lastTime    |-> time,
    params      |-> params,
    sumCost     |-> 0,
    pending     |-> << >> ]

recalcBLE(peer, time) ==
  IF time < peer.lastTime THEN peer
  ELSE IF peer.bufRecharge
       THEN LET est == Uint64Add(peer.bufEstimate,
                         (peer.params.MinRecharge * (time - peer.lastTime)) \div fcTimeConst)
            IN  IF est >= peer.params.BufLimit
                THEN [peer EXCEPT !.bufEstimate = peer.params.BufLimit,
                                  !.bufRecharge = FALSE,
                                  !.lastTime = time]
                ELSE [peer EXCEPT !.bufEstimate = est, !.lastTime = time]
       ELSE [peer EXCEPT !.lastTime = time]

ServerNodeUpdateParams(peer, params, time) ==
  LET p1 == recalcBLE(peer, time)
  IN  [p1 EXCEPT !.bufEstimate =
                    IF params.BufLimit > p1.params.BufLimit
                    THEN Uint64Add(@, params.BufLimit - p1.params.BufLimit)
                    ELSE IF @ > params.BufLimit THEN params.BufLimit ELSE @,
                 !.params = params]

\* maxCost with the safety margin, cut to BufLimit
CanSendCost(peer, maxCost) ==
  LET c == maxCost + (safetyMargin * peer.params.MinRecharge) \div fcTimeConst
  IN  IF c > peer.params.BufLimit THEN peer.params.BufLimit ELSE c

\* the waiting time CanSend returns, for a peer already integrated to now
CanSendWait(peer, maxCost) ==
  LET c == CanSendCost(peer, maxCost)
  IN  IF peer.bufEstimate >= c THEN 0
      ELSE ((c - peer.bufEstimate) * fcTimeConst) \div peer.params.MinRecharge

\* CanSend changes the node only by its integration
CanSend(peer, time) == recalcBLE(peer, time)

QueuedRequest(peer, reqID, maxCost, time) ==
  LET p1 == recalcBLE(peer, time)
  IN  [p1 EXCEPT !.bufEstimate = Uint64Sub(@, maxCost),
                 !.sumCost = @ + maxCost,
                 !.pending = (reqID :> (p1.sumCost + maxCost)) @@ @]

\* the reply of a pending request taken without the cost queued after it
ReceivedReplyPendingPlain(p1, reqID, bv, time) ==
  [p1 EXCEPT !.pending = [i \in DOMAIN @ \ {reqID} |-> @[i]],
             !.bufEstimate = bv,
             !.bufRecharge = bv < p1.params.BufLimit,
             !.lastTime = time]

\* ReceivedReply of a pending request, for a peer integrated to now and a
\* buffer value cut to BufLimit
ReceivedReplyPending(p1, reqID, bv, time) ==
  LET cc  == p1.sumCost - p1.pending[reqID]
      est == IF bv > cc THEN bv - cc ELSE 0
  IN  [p1 EXCEPT !.pending = [i \in DOMAIN @ \ {reqID} |-> @[i]],
                 !.bufEstimate = est,
                 !.bufRecharge = est < p1.params.BufLimit,
                 !.lastTime = time]

\* the buffer value of a reply, cut to BufLimit
ReceivedReplyBv(peer, bv) ==
  IF bv > peer.params.BufLimit THEN peer.params.BufLimit ELSE bv

\* ReceivedReply taking the reply of an unknown request as the answer to
\* the last request
ReceivedReplyAny(peer, reqID, bv0, time) ==
  [recalcBLE(peer, time)
     EXCEPT !.bufEstimate = ReceivedReplyBv(peer, bv0),
            !.bufRecharge = ReceivedReplyBv(peer, bv0) < peer.params.BufLimit,
            !.pending = [i \in DOMAIN @ \ {reqID} |-> @[i]]]

ReceivedReply(peer, reqID, bv0, time) ==
  IF reqID \notin DOMAIN peer.pending
  THEN recalcBLE(peer, time)
  ELSE ReceivedReplyPending(recalcBLE(peer, time), reqID,
                            ReceivedReplyBv(peer, bv0), time)

----------------------------------------------------------------------------
(* The pool of prioritized clients (vipClientPool) and the calls of the    *)
(* server API on it.  A pool operation works on a record w = [vip, out]:   *)
(* the pool and what the call returned and invoked.  The updateBw hook of  *)
(* a client is a number, 0 for nil.                                        *)

\* server.totalBandwidth and server.minBandwidth
totalBandwidth == 100
minBandwidth == 10

\* the zero value of vipClientInfo, which a map read of a missing id yields
NoClientInfo == [bw |-> 0, connected |-> FALSE, updateBw |-> 0]

NewVipPool(totalBw) ==
  [clients |-> [id \in {} |-> NoClientInfo], totalBw |-> totalBw,
   totalVipBw |-> 0, totalConnectedBw |-> 0, vipCount |-> 0]

\* v.clients[id]
clientInfo(v, id) == IF id \in DOMAIN v.clients THEN v.clients[id] ELSE NoClientInfo

\* v.clients[id] = c
clientsSet(clients, id, c) ==
  [x \in DOMAIN clients \cup {id} |-> IF x = id THEN c ELSE clients[x]]

\* delete(v.clients, id)
clientsDelete(clients, id) == [x \in DOMAIN clients \ {id} |-> clients[x]]

\* pm.clientPool.setConnLimit(pm.maxFreePeers(vipCount, totalConnectedBw)):
\* the arguments of the call are kept
setConnLimit(w) ==
  [w EXCEPT !.out.connLimit = <<w.vip.vipCount, w.vip.totalConnectedBw>>]

\* the test of SetClientBandwidth for ErrTotalBW, in uint64
SetClientBandwidthOver(v, c, bw) ==
  Uint64Add(v.totalVipBw, bw) > Uint64Add(v.totalBw, c.bw)

\* SetClientBandwidth: the totals and vipCount
SetClientBandwidthTotals(w, c, bw) ==
  [w EXCEPT !.vip.totalVipBw = Uint64Add(@, Uint64Sub(bw, c.bw)),
            !.vip.vipCount = @ - (IF c.bw # 0 THEN 1 ELSE 0) + (IF bw # 0 THEN 1 ELSE 0)]

\* SetClientBandwidth: the updateBw hook of the client
SetClientBandwidthHook(w, c, bw) ==
  IF c.updateBw # 0
  THEN [w EXCEPT !.out.hook = c.updateBw, !.out.hookArg = bw]
  ELSE w

\* SetClientBandwidth: the bandwidth of the connected clients and the limit
SetClientBandwidthConnected(w, c, bw) ==
  IF c.connected
  THEN setConnLimit([w EXCEPT !.vip.totalConnectedBw = Uint64Add(@, Uint64Sub(bw, c.bw))])
  ELSE w

\* SetClientBandwidth: the entry of the client
SetClientBandwidthEntry(w, id, c, bw) ==
  IF bw # 0 \/ c.connected
  THEN [w EXCEPT !.vip.clients = clientsSet(@, id, [c EXCEPT !.bw = bw])]
  ELSE [w EXCEPT !.vip.clients = clientsDelete(@, id)]

SetClientBandwidthApply(w, id, c, bw) ==
  SetClientBandwidthEntry(
    SetClientBandwidthConnected(
      SetClientBandwidthHook(SetClientBandwidthTotals(w, c, bw), c, bw), c, bw),
    id, c, bw)

SetClientBandwidth(w, id, bw) ==
  IF bw # 0 /\ bw < minBandwidth
  THEN [w EXCEPT !.out.err = "ErrMinBW"]
  ELSE IF SetClientBandwidthOver(w.vip, clientInfo(w.vip, id), bw)
       THEN [w EXCEPT !.out.err = "ErrTotalBW"]
       ELSE SetClientBandwidthApply(w, id, clientInfo(w.vip, id), bw)

\* connect of a client that is not connected
connectNew(w, id, c, updateBw) ==
  setConnLimit(
    [w EXCEPT !.vip.clients = clientsSet(@, id, [c EXCEPT !.connected = TRUE,
                                                          !.updateBw = updateBw]),
              !.vip.vipCount = @ + (IF c.bw # 0 THEN 1 ELSE 0),
              !.vip.totalConnectedBw = Uint64Add(@, c.bw),
              !.out.guaranteedBw = c.bw,
              !.out.ok = TRUE])

\* connect without the test for a connected client
connectAgain(w, id, updateBw) == connectNew(w, id, clientInfo(w.vip, id), updateBw)

connect(w, id, updateBw) ==
  IF clientInfo(w.vip, id).connected
  THEN [w EXCEPT !.out.guaranteedBw = 0, !.out.ok = FALSE]
  ELSE connectNew(w, id, clientInfo(w.vip, id), updateBw)

\* disconnect keeping the entry of a client without bandwidth
disconnectKeepEntry(w, id, c) ==
  setConnLimit(
    [w EXCEPT !.vip.clients = clientsSet(@, id, [c EXCEPT !.connected = FALSE]),
              !.vip.vipCount = @ - (IF c.bw # 0 THEN 1 ELSE 0),
              !.vip.totalConnectedBw = Uint64Sub(@, c.bw)])

\* disconnect of a client with entry c
disconnectOf(w, id, c) ==
  setConnLimit(
    [w EXCEPT !.vip.clients = IF c.bw # 0
                              THEN clientsSet(@, id, [c EXCEPT !.connected = FALSE])
                              ELSE clientsDelete(@, id),
              !.vip.vipCount = @ - (IF c.bw # 0 THEN 1 ELSE 0),
              !.vip.totalConnectedBw = Uint64Sub(@, c.bw)])

disconnect(w, id) == disconnectOf(w, id, clientInfo(w.vip, id))

----------------------------------------------------------------------------
(* The state: the clock, the ClientNodes, the manager, the channels of the *)
(* start tokens, the requests accepted so far (reqs), what the last        *)
(* operation returned (ret), the UpdateParams calls made (hist) and the    *)
(* pool of prioritized clients (vip).                                      *)

\* the scheduled decreases of MinRecharge that update(time) applies: the time
\* from which integration uses the lower rate, and the rate
RECURSIVE scheduleDrops(_, _)
scheduleDropsFrom(peer, p2, time) ==
  (IF p2.params.MinRecharge < peer.params.MinRecharge
   THEN {[t |-> peer.updateSchedule[1].time, v |-> p2.params.MinRecharge]} ELSE {})
  \cup scheduleDrops([p2 EXCEPT !.updateSchedule = Tail(@)], time)

scheduleDrops(peer, time) ==
  IF Len(peer.updateSchedule) > 0 /\ peer.updateSchedule[1].time <= time
  THEN scheduleDropsFrom(peer,
         updateParams(recalcBV(peer, peer.updateSchedule[1].time),
                      peer.updateSchedule[1].params, time),
         time)
  ELSE {}

NoRet == [op |-> "none", n |-> 0, index |-> 0, maxCost |-> 0,
          accepted |-> FALSE, bufShort |-> 0, bv |-> 0, lifted |-> FALSE,
          drops |-> {}, wait |-> 0]

\* the state an operation op of node n starts from
W(op, n, index, maxCost) ==
  [cm |-> cm, node |-> node, ch |-> ch,
   out |-> [NoRet EXCEPT !.op = op, !.n = n, !.index = index, !.maxCost = maxCost,
                         !.drops = scheduleDrops(node[n], clock)]]

Install(w) == cm' = w.cm /\ node' = w.node /\ ch' = w.ch /\ ret' = w.out

ParamSet == { ServerParams(l, r) : l \in {SmallBufLimit, LargeBufLimit},
                                   r \in 1 .. MaxRecharge }
\* the parameters of the runs with requests: the least and the greatest rate
NodeParamSet == { p \in ParamSet : p.MinRecharge \in {1, MaxRecharge} }

CoarseTimes == { t \in { k * DecParamDelay + j : k \in 0 .. MaxPeriods,
                                                 j \in (-MaxJitter) .. MaxJitter } : t >= 0 }

NoServerNode == NewServerNode(ServerParams(1, 1), 0)

\* the UpdateParams calls made so far: the time and rate of each, and the last
NoHist == [calls |-> {}, n |-> 0,
           last |-> [time |-> 0, params |-> ServerParams(1, 1), immediate |-> FALSE]]

NoChannels == [i \in 1 .. MaxTokens |-> "nil"]

InitCommon ==
  /\ clock = 0
  /\ ch = NoChannels
  /\ reqs = << >>
  /\ ret = NoRet
  /\ sn = NoServerNode
  /\ reqQ = << >>
  /\ replyQ = << >>
  /\ hist = NoHist
  /\ vip = NewVipPool(totalBandwidth)

\* the clock moves on by one unit
TickFine ==
  /\ clock < MaxClock
  /\ clock' = clock + 1
  /\ ret' = NoRet
  /\ UNCHANGED <<vip, node, cm, ch, reqs, sn, reqQ, replyQ, hist>>

\* the clock moves on to a later time around a multiple of DecParamDelay
TickCoarse ==
  /\ \E t \in CoarseTimes : t > clock /\ clock' = t
  /\ ret' = NoRet
  /\ UNCHANGED <<vip, node, cm, ch, reqs, sn, reqQ, replyQ, hist>>

\* ClientNode.UpdateParams(params) on node n
DoUpdateParams(n, params) ==
  /\ node[n].created
  /\ node' = [node EXCEPT ![n] = ClientNodeUpdateParams(@, params, clock)]
  /\ ret' = W("UpdateParams", n, 0, 0).out
  /\ UNCHANGED <<vip, clock, cm, ch, reqs, sn, reqQ, replyQ>>

\* the call UpdateParams(params) on node n, added to the calls made so far
Recorded(n, params) ==
  [calls |-> hist.calls \cup {[time |-> clock, rate |-> params.MinRecharge]},
   n     |-> hist.n + 1,
   last  |-> [time |-> clock, params |-> params,
              immediate |-> params.MinRecharge >=
                              update(node[n], clock).params.MinRecharge]]

\* the request index of node n, accepted: it waits for its channel or runs
Accepted(w, n, index, maxCost) ==
  Append(reqs, [n |-> n, maxCost |-> maxCost,
                st |-> IF w.ch[index] = "empty" THEN "waiting" ELSE "running",
                sumAt |-> w.node[n].sumCost,
                qBuf |-> w.node[n].bufValue,
                qLim |-> w.node[n].params.BufLimit])

AcceptRequestDone(w, n, index, maxCost) ==
  /\ Install(w)
  /\ reqs' = IF w.out.accepted THEN Accepted(w, n, index, maxCost) ELSE reqs
  /\ UNCHANGED <<vip, clock, sn, reqQ, replyQ, hist>>

\* ClientNode.AcceptRequest(reqID, index, maxCost) on node n, for a new index,
\* while fewer than limit requests have been accepted
DoAcceptRequest(n, maxCost, limit) ==
  /\ node[n].created
  /\ Len(reqs) < limit
  /\ AcceptRequestDone(
       AcceptRequest(W("AcceptRequest", n, Len(reqs) + 1, maxCost),
                     n, Len(reqs) + 1, maxCost, clock),
       n, Len(reqs) + 1, maxCost)

\* the waiter of request r has received true from its channel: cm.started
DoStarted(r) ==
  /\ r \in 1 .. Len(reqs)
  /\ reqs[r].st = "waiting"
  /\ ch[r] = "true"
  /\ Install(started(W("started", reqs[r].n, r, reqs[r].maxCost),
                     reqs[r].n, reqs[r].maxCost, clock))
  /\ reqs' = [reqs EXCEPT ![r].st = "running"]
  /\ UNCHANGED <<vip, clock, sn, reqQ, replyQ, hist>>

\* ClientNode.RequestProcessed(reqID, index, ...) of the running request r
DoRequestProcessed(r) ==
  /\ r \in 1 .. Len(reqs)
  /\ reqs[r].st = "running"
  /\ Install(RequestProcessed(W("RequestProcessed", reqs[r].n, r, reqs[r].maxCost),
                              reqs[r].n, r, clock))
  /\ reqs' = [reqs EXCEPT ![r].st = "done"]
  /\ UNCHANGED <<vip, clock, sn, reqQ, replyQ, hist>>

----------------------------------------------------------------------------
(* One ClientNode and its manager: parameter updates, requests, time.      *)

InitNodeWorld ==
  NewClientNode([cm   |-> NewClientManager(1, TotalRecharge, FALSE),
                 node |-> [n \in Nodes |-> NoClientNode],
                 ch   |-> NoChannels,
                 out  |-> NoRet],
                1, ServerParams(LargeBufLimit, MaxRecharge), 0)

InitNode ==
  /\ InitCommon
  /\ cm = InitNodeWorld.cm
  /\ node = InitNodeWorld.node

NodeUpdateParams ==
  \E params \in NodeParamSet :
     /\ hist.n < NodeMaxUpdates
     /\ DoUpdateParams(1, params)
     /\ hist' = [hist EXCEPT !.n = @ + 1]

NodeAcceptRequest == \E maxCost \in {1, MaxCost} : DoAcceptRequest(1, maxCost, NodeMaxReqs)

NodeStarted == \E r \in 1 .. NodeMaxReqs : DoStarted(r)

NodeRequestProcessed == \E r \in 1 .. NodeMaxReqs : DoRequestProcessed(r)

NextNode ==
  \/ TickCoarse
  \/ NodeUpdateParams
  \/ NodeAcceptRequest
  \/ NodeStarted
  \/ NodeRequestProcessed

SpecNode == InitNode /\ [][NextNode]_vars

----------------------------------------------------------------------------
(* One ClientNode: the UpdateParams calls made are kept, and requests that *)
(* exceed every BufLimit, and are rejected, integrate the node.            *)

ParamsUpdateParams ==
  \E params \in ParamSet :
     /\ hist.n < MaxUpdates
     /\ DoUpdateParams(1, params)
     /\ hist' = Recorded(1, params)

ParamsAcceptRequest == DoAcceptRequest(1, LargeBufLimit + 1, NodeMaxReqs)

NextParams ==
  \/ TickCoarse
  \/ ParamsUpdateParams
  \/ ParamsAcceptRequest

SpecParams == InitNode /\ [][NextParams]_vars

----------------------------------------------------------------------------
(* A ClientManager with maxParallelReqs = 1 and NumNodes ClientNodes:      *)
(* requests, their start tokens and completions, removed nodes, Stop.      *)

RECURSIVE NewClientNodes(_, _)
NewClientNodes(w, n) ==
  IF n > NumNodes THEN w
  ELSE NewClientNodes(NewClientNode(w, n, ServerParams(ManagerBufLimit, 1), 0), n + 1)

InitManagerWorld ==
  NewClientNodes([cm   |-> NewClientManager(1, TotalRecharge, FALSE),
                  node |-> [n \in Nodes |-> NoClientNode],
                  ch   |-> NoChannels,
                  out  |-> NoRet],
                 1)

InitManager ==
  /\ InitCommon
  /\ cm = InitManagerWorld.cm
  /\ node = InitManagerWorld.node

ManagerAcceptRequest ==
  \E n \in Nodes, maxCost \in {1, ManagerBufLimit - 1} :
     DoAcceptRequest(n, maxCost, MaxReqs)

ManagerStarted == \E r \in 1 .. MaxReqs : DoStarted(r)

ManagerRequestProcessed == \E r \in 1 .. MaxReqs : DoRequestProcessed(r)

\* ClientManager.removeNode of a node, while every node is registered
ManagerRemoveNode ==
  \E n \in cm.nodes :
     /\ cm.nodes = Nodes
     /\ Install(removeNode(W("removeNode", n, 0, 0), n))
     /\ UNCHANGED <<vip, clock, reqs, sn, reqQ, replyQ, hist>>

\* ClientManager.Stop
ManagerStop ==
  /\ ~cm.nodesNil
  /\ Install(Stop(W("Stop", 1, 0, 0)))
  /\ UNCHANGED <<vip, clock, reqs, sn, reqQ, replyQ, hist>>

NextManager ==
  \/ TickFine
  \/ ManagerAcceptRequest
  \/ ManagerStarted
  \/ ManagerRequestProcessed
  \/ ManagerRemoveNode
  \/ ManagerStop

SpecManager == InitManager /\ [][NextManager]_vars

----------------------------------------------------------------------------
(* A client's ServerNode and the server's ClientNode for it, with fixed    *)
(* ServerParams: requests travel to the server in the order of their       *)
(* QueuedRequest calls (reqQ), replies travel back in order (replyQ).       *)

LinkParams == ServerParams(LargeBufLimit, 1)

InitLinkWorld ==
  NewClientNode([cm   |-> NewClientManager(1, TotalRecharge, FALSE),
                 node |-> [n \in Nodes |-> NoClientNode],
                 ch   |-> NoChannels,
                 out  |-> NoRet],
                1, LinkParams, 0)

InitLink ==
  /\ clock = 0
  /\ ch = NoChannels
  /\ reqs = << >>
  /\ ret = NoRet
  /\ sn = NewServerNode(LinkParams, 0)
  /\ reqQ = << >>
  /\ replyQ = << >>
  /\ hist = NoHist
  /\ vip = NewVipPool(totalBandwidth)
  /\ cm = InitLinkWorld.cm
  /\ node = InitLinkWorld.node

\* the client asks CanSend(maxCost) for a maxCost within BufLimit
LinkCanSend ==
  \E maxCost \in 1 .. LargeBufLimit :
     /\ hist.n < MaxReqs
     /\ sn' = CanSend(sn, clock)
     /\ ret' = [NoRet EXCEPT !.op = "CanSend", !.maxCost = maxCost,
                             !.wait = CanSendWait(CanSend(sn, clock), maxCost)]
     /\ UNCHANGED <<vip, clock, node, cm, ch, reqs, reqQ, replyQ, hist>>

\* CanSend(maxCost) has just returned 0: QueuedRequest, and the request is sent
LinkQueuedRequest ==
  /\ ret.op = "CanSend"
  /\ ret.wait = 0
  /\ sn' = QueuedRequest(sn, hist.n + 1, ret.maxCost, clock)
  /\ reqQ' = Append(reqQ, [id |-> hist.n + 1, maxCost |-> ret.maxCost])
  /\ hist' = [hist EXCEPT !.n = @ + 1]
  /\ ret' = [NoRet EXCEPT !.op = "QueuedRequest", !.index = hist.n + 1,
                          !.maxCost = ret.maxCost]
  /\ UNCHANGED <<vip, clock, node, cm, ch, reqs, replyQ>>

\* the request as the server keeps it: accepted, or rejected
LinkArrived(w, id, maxCost) ==
  IF w.out.accepted THEN Accepted(w, 1, id, maxCost)
  ELSE Append(reqs, [n |-> 1, maxCost |-> maxCost, st |-> "rejected",
                     sumAt |-> w.node[1].sumCost,
                     qBuf |-> w.node[1].bufValue,
                     qLim |-> w.node[1].params.BufLimit])

LinkArrival(w, id, maxCost) ==
  /\ Install(w)
  /\ reqs' = LinkArrived(w, id, maxCost)
  /\ reqQ' = Tail(reqQ)
  /\ UNCHANGED <<vip, clock, sn, replyQ, hist>>

\* the oldest request in flight reaches the server: AcceptRequest
LinkAcceptRequest ==
  /\ Len(reqQ) > 0
  /\ LinkArrival(AcceptRequest(W("AcceptRequest", 1, reqQ[1].id, reqQ[1].maxCost),
                               1, reqQ[1].id, reqQ[1].maxCost, clock),
                 reqQ[1].id, reqQ[1].maxCost)

LinkStarted == \E r \in 1 .. MaxReqs : DoStarted(r)

LinkReply(w, r) ==
  /\ Install(w)
  /\ reqs' = [reqs EXCEPT ![r].st = "done"]
  /\ replyQ' = Append(replyQ, [id |-> r, bv |-> w.out.bv])
  /\ UNCHANGED <<vip, clock, sn, reqQ, hist>>

\* the server has served request r: RequestProcessed, and the reply is sent
LinkRequestProcessed ==
  \E r \in 1 .. MaxReqs :
     /\ r <= Len(reqs)
     /\ reqs[r].st = "running"
     /\ LinkReply(RequestProcessed(W("RequestProcessed", 1, r, reqs[r].maxCost),
                                   1, r, clock), r)

\* the oldest reply in flight reaches the client: ReceivedReply
LinkReceivedReply ==
  /\ Len(replyQ) > 0
  /\ sn' = ReceivedReply(sn, replyQ[1].id, replyQ[1].bv, clock)
  /\ replyQ' = Tail(replyQ)
  /\ ret' = [NoRet EXCEPT !.op = "ReceivedReply", !.index = replyQ[1].id,
                          !.bv = replyQ[1].bv]
  /\ UNCHANGED <<vip, clock, node, cm, ch, reqs, reqQ, hist>>

NextLink ==
  \/ TickFine
  \/ LinkCanSend
  \/ LinkQueuedRequest
  \/ LinkAcceptRequest
  \/ LinkStarted
  \/ LinkRequestProcessed
  \/ LinkReceivedReply

SpecLink == InitLink /\ [][NextLink]_vars

----------------------------------------------------------------------------
(* The waiters of the ClientManager: requests without end.  A request      *)
(* takes one of MaxTokens slots (its index and its channel) and gives it   *)
(* back when it is processed or abandoned.  Requests of cost 0 leave the    *)
(* buffers as they are, so a node can go on sending them; at most one      *)
(* request has a cost, the first.  Time stands still.  A waiter that is    *)
(* told true calls started, and every started request is reported          *)
(* processed.                                                              *)

FreeSlot == [n |-> 1, maxCost |-> 0, st |-> "done", sumAt |-> 0, qBuf |-> 0, qLim |-> 1]

InitWaiters ==
  /\ clock = 0
  /\ ch = NoChannels
  /\ reqs = [r \in 1 .. MaxTokens |-> FreeSlot]
  /\ ret = NoRet
  /\ sn = NoServerNode
  /\ reqQ = << >>
  /\ replyQ = << >>
  /\ hist = NoHist
  /\ vip = NewVipPool(totalBandwidth)
  /\ cm = InitManagerWorld.cm
  /\ node = InitManagerWorld.node

\* the slot r after AcceptRequest of node n
SlotAccepted(w, n, r, maxCost) ==
  [n |-> n, maxCost |-> maxCost,
   st |-> IF w.ch[r] = "empty" THEN "waiting" ELSE "running",
   sumAt |-> w.node[n].sumCost,
   qBuf |-> w.node[n].bufValue,
   qLim |-> w.node[n].params.BufLimit]

WaitersAccepted(w, n, r, maxCost) ==
  /\ Install(w)
  /\ reqs' = IF w.out.accepted THEN [reqs EXCEPT ![r] = SlotAccepted(w, n, r, maxCost)]
             ELSE reqs
  /\ hist' = IF maxCost > 0 THEN [hist EXCEPT !.n = @ + 1] ELSE hist
  /\ UNCHANGED <<vip, clock, sn, reqQ, replyQ>>

\* AcceptRequest of node n with the free slot r as its index
WaitersAcceptRequest ==
  \E n \in Nodes, r \in 1 .. MaxTokens, maxCost \in {0, ManagerBufLimit - 1} :
     /\ reqs[r].st = "done"
     /\ maxCost = 0 \/ (hist.n = 0 /\ cm.parallelReqs = 0)
     /\ WaitersAccepted(
          AcceptRequest([W("AcceptRequest", n, r, maxCost) EXCEPT !.ch[r] = "nil"],
                        n, r, maxCost, clock),
          n, r, maxCost)

WaitersStarted == \E r \in 1 .. MaxTokens : DoStarted(r)

\* the slot r is given back
SlotFreed(w, r) ==
  /\ Install([w EXCEPT !.ch[r] = "nil"])
  /\ reqs' = [reqs EXCEPT ![r] = FreeSlot]
  /\ UNCHANGED <<vip, clock, sn, reqQ, replyQ, hist>>

\* RequestProcessed of the running request of slot r
WaitersRequestProcessed ==
  \E r \in 1 .. MaxTokens :
     /\ reqs[r].st = "running"
     /\ SlotFreed(RequestProcessed(W("RequestProcessed", reqs[r].n, r, reqs[r].maxCost),
                                   reqs[r].n, r, clock), r)

\* a waiter that is told false abandons its request
WaitersAbandon ==
  \E r \in 1 .. MaxTokens :
     /\ reqs[r].st = "waiting"
     /\ ch[r] = "false"
     /\ SlotFreed(W("abandon", reqs[r].n, r, reqs[r].maxCost), r)

NextWaiters ==
  \/ WaitersAcceptRequest
  \/ WaitersStarted
  \/ WaitersRequestProcessed
  \/ WaitersAbandon
  \/ ManagerRemoveNode

\* a WaitersStarted step, told by what it does to reqs: it is possible
\* whenever a waiter has been told true
StartedStep ==
  \E r \in 1 .. MaxTokens :
     /\ reqs[r].st = "waiting"
     /\ ch[r] = "true"
     /\ reqs' = [reqs EXCEPT ![r].st = "running"]

\* a WaitersRequestProcessed step, told by what it does to reqs: it is
\* possible whenever a request is running
ProcessedStep ==
  \E r \in 1 .. MaxTokens :
     /\ reqs[r].st = "running"
     /\ reqs' = [reqs EXCEPT ![r] = FreeSlot]

\* every waiter that is told true calls started, and every started request
\* is reported processed
SpecWaiters ==
  /\ InitWaiters
  /\ [][NextWaiters]_vars
  /\ WF_reqs(StartedStep)
  /\ WF_reqs(ProcessedStep)

----------------------------------------------------------------------------
(* The pool of prioritized clients under calls of SetClientBandwidth,      *)
(* connect and disconnect in any order.  hist.n counts the calls; ret      *)
(* keeps the last call, what it returned and invoked, and the pool before  *)
(* it.                                                                     *)

ClientIds == 1 .. NumClients

\* bandwidths: none, below the minimum, shares of the total, and one near 2^64
BwSet == {0, minBandwidth - 1, 40, 50, 60, 70, Uint64Mod - 10}

\* no call on the pool yet
NoVipRet ==
  [op |-> "none", id |-> 0, bw |-> 0, updateBw |-> 0,
   err |-> "nil", ok |-> TRUE, guaranteedBw |-> 0,
   hook |-> 0, hookArg |-> 0, connLimit |-> << >>,
   pre |-> NewVipPool(totalBandwidth),
   before |-> [op |-> "none", id |-> 0, ok |-> TRUE, vipCount |-> 0, totalConnectedBw |-> 0]]

\* the state a pool operation starts from: out.pre is the pool before the
\* call, out.before the call before it
VW(op, id, bw, updateBw) ==
  [vip |-> vip,
   out |-> [NoVipRet EXCEPT !.op = op, !.id = id, !.bw = bw, !.updateBw = updateBw,
                            !.pre = vip,
                            !.before = [op |-> ret.op, id |-> ret.id, ok |-> ret.ok,
                                        vipCount |-> ret.pre.vipCount,
                                        totalConnectedBw |-> ret.pre.totalConnectedBw]]]

InstallVip(w) ==
  /\ hist.n < MaxCalls
  /\ vip' = w.vip
  /\ ret' = w.out
  /\ hist' = [hist EXCEPT !.n = @ + 1]
  /\ UNCHANGED <<clock, node, cm, ch, reqs, sn, reqQ, replyQ>>

InitVip ==
  /\ clock = 0
  /\ ch = NoChannels
  /\ reqs = << >>
  /\ ret = NoVipRet
  /\ sn = NoServerNode
  /\ reqQ = << >>
  /\ replyQ = << >>
  /\ hist = NoHist
  /\ vip = NewVipPool(totalBandwidth)
  /\ cm = NewClientManager(1, TotalRecharge, FALSE)
  /\ node = [n \in Nodes |-> NoClientNode]

VipSetClientBandwidth ==
  \E id \in ClientIds, bw \in BwSet :
     InstallVip(SetClientBandwidth(VW("SetClientBandwidth", id, bw, 0), id, bw))

VipConnect ==
  \E id \in ClientIds, updateBw \in 1 .. NumHooks :
     InstallVip(connect(VW("connect", id, 0, updateBw), id, updateBw))

\* disconnect is called for a client whose connect succeeded
VipDisconnect ==
  \E id \in ClientIds :
     /\ clientInfo(vip, id).connected
     /\ InstallVip(disconnect(VW("disconnect", id, 0, 0), id))

NextVip == VipSetClientBandwidth \/ VipConnect \/ VipDisconnect

SpecVip == InitVip /\ [][NextVip]_vars

----------------------------------------------------------------------------
(* One ServerNode under calls of CanSend, QueuedRequest, ReceivedReply and *)
(* UpdateParams in any order.  ret keeps the last call, the time of it and *)
(* the waiting time CanSend returned; hist.n counts the requests.          *)

ServerRet(op, maxCost, wait, recharge) ==
  [op |-> op, maxCost |-> maxCost, wait |-> wait, time |-> clock, recharge |-> recharge,
   reqID |-> 0, bv |-> 0]

\* the costs of the requests: the least, one below and one above the greatest BufLimit
ServerCosts == {1, LargeBufLimit - 1, LargeBufLimit + 1}

\* the buffer values of the replies: none, a part and more than BufLimit
ServerBufValues == {0, SmallBufLimit, LargeBufLimit + 1}

InitServer ==
  /\ clock = 0
  /\ ch = NoChannels
  /\ reqs = << >>
  /\ ret = ServerRet("none", 0, 0, FALSE)
  /\ sn = NewServerNode(ServerParams(LargeBufLimit, 1), 0)
  /\ reqQ = << >>
  /\ replyQ = << >>
  /\ hist = NoHist
  /\ vip = NewVipPool(totalBandwidth)
  /\ cm = NewClientManager(1, TotalRecharge, FALSE)
  /\ node = [n \in Nodes |-> NoClientNode]

\* time passes between two calls
ServerTick ==
  /\ clock < MaxServerClock
  /\ clock' = clock + 1
  /\ UNCHANGED <<vip, node, cm, ch, reqs, ret, sn, reqQ, replyQ, hist>>

ServerCanSend ==
  \E maxCost \in ServerCosts :
     /\ sn' = CanSend(sn, clock)
     /\ ret' = ServerRet("CanSend", maxCost, CanSendWait(CanSend(sn, clock), maxCost),
                         CanSend(sn, clock).bufRecharge)
     /\ UNCHANGED <<vip, clock, node, cm, ch, reqs, reqQ, replyQ, hist>>

ServerQueuedRequest ==
  \E maxCost \in ServerCosts :
     /\ hist.n < MaxReqs
     /\ sn' = QueuedRequest(sn, hist.n + 1, maxCost, clock)
     /\ hist' = [hist EXCEPT !.n = @ + 1]
     /\ ret' = ServerRet("QueuedRequest", maxCost, 0, FALSE)
     /\ UNCHANGED <<vip, clock, node, cm, ch, reqs, reqQ, replyQ>>

ServerReceivedReply ==
  \E reqID \in 1 .. MaxReqs, bv \in ServerBufValues :
     /\ sn' = ReceivedReply(sn, reqID, bv, clock)
     /\ ret' = [ServerRet("ReceivedReply", 0, 0, FALSE) EXCEPT !.reqID = reqID, !.bv = bv]
     /\ UNCHANGED <<vip, clock, node, cm, ch, reqs, reqQ, replyQ, hist>>

ServerUpdateParams ==
  \E params \in NodeParamSet :
     /\ sn' = ServerNodeUpdateParams(sn, params, clock)
     /\ ret' = ServerRet("UpdateParams", 0, 0, FALSE)
     /\ UNCHANGED <<vip, clock, node, cm, ch, reqs, reqQ, replyQ, hist>>

NextServer ==
  \/ ServerTick
  \/ ServerCanSend
  \/ ServerQueuedRequest
  \/ ServerReceivedReply
  \/ ServerUpdateParams

SpecServer == InitServer /\ [][NextServer]_vars

----------------------------------------------------------------------------
(* An idle ClientNode and an idle ServerNode: at time 0 the ClientNode may *)
(* accept one request, which leaves it with less than BufLimit, and the    *)
(* ServerNode has had the reply of a request that used its whole buffer.   *)
(* Afterwards the clock moves, forward or back, and the nodes are          *)
(* integrated at any time.  hist.n counts the steps back of the clock; ret *)
(* keeps the last integration with lastTime and the buffer value before.   *)

IdleRet(op, lastTime, value) == [op |-> op, lastTime |-> lastTime, value |-> value]

IdleClientWorld(recharge) ==
  NewClientNode([cm   |-> NewClientManager(1, TotalRecharge, FALSE),
                 node |-> [n \in Nodes |-> NoClientNode],
                 ch   |-> NoChannels,
                 out  |-> NoRet],
                1, ServerParams(LargeBufLimit, recharge), 0)

IdleServerNode(recharge) ==
  ReceivedReply(QueuedRequest(NewServerNode(ServerParams(LargeBufLimit, recharge), 0),
                              1, LargeBufLimit, 0),
                1, 0, 0)

InitIdle ==
  /\ clock = 0
  /\ ch = NoChannels
  /\ reqs = << >>
  /\ ret = IdleRet("none", 0, 0)
  /\ reqQ = << >>
  /\ replyQ = << >>
  /\ hist = NoHist
  /\ vip = NewVipPool(totalBandwidth)
  /\ \E recharge \in {1, MaxRecharge} :
        /\ cm = IdleClientWorld(recharge).cm
        /\ node = IdleClientWorld(recharge).node
        /\ sn = IdleServerNode(recharge)

\* the request the ClientNode accepts at time 0
IdleAccepted(w, maxCost) ==
  /\ cm' = w.cm
  /\ node' = w.node
  /\ ch' = w.ch
  /\ reqs' = Accepted(w, 1, 1, maxCost)
  /\ ret' = IdleRet("AcceptRequest", node[1].lastTime, node[1].bufValue)
  /\ UNCHANGED <<vip, clock, sn, reqQ, replyQ, hist>>

IdleAcceptRequest ==
  \E maxCost \in 1 .. LargeBufLimit :
     /\ clock = 0
     /\ hist.n = 0
     /\ Len(reqs) = 0
     /\ IdleAccepted(AcceptRequest(W("AcceptRequest", 1, 1, maxCost), 1, 1, maxCost, clock),
                     maxCost)

\* hist.last.time keeps the largest value the clock has shown
IdleTick ==
  /\ clock < MaxIdleClock
  /\ clock' = clock + 1
  /\ hist' = [hist EXCEPT !.last.time = Max(@, clock + 1)]
  /\ UNCHANGED <<vip, node, cm, ch, reqs, ret, sn, reqQ, replyQ>>

\* the clock goes back
IdleRegress ==
  /\ clock > 0
  /\ hist.n < MaxRegress
  /\ clock' = clock - 1
  /\ hist' = [hist EXCEPT !.n = @ + 1]
  /\ UNCHANGED <<vip, node, cm, ch, reqs, ret, sn, reqQ, replyQ>>

\* ClientNode.update(now), the integration every operation of the node starts with
IdleUpdate ==
  /\ node' = [node EXCEPT ![1] = update(@, clock)]
  /\ ret' = IdleRet("update", node[1].lastTime, node[1].bufValue)
  /\ UNCHANGED <<vip, clock, cm, ch, reqs, sn, reqQ, replyQ, hist>>

\* ServerNode.recalcBLE(now), by a CanSend
IdleCanSend ==
  /\ sn' = CanSend(sn, clock)
  /\ ret' = IdleRet("CanSend", sn.lastTime, sn.bufEstimate)
  /\ UNCHANGED <<vip, clock, node, cm, ch, reqs, reqQ, replyQ, hist>>

NextIdle ==
  \/ IdleAcceptRequest
  \/ IdleTick
  \/ IdleRegress
  \/ IdleUpdate
  \/ IdleCanSend

SpecIdle == InitIdle /\ [][NextIdle]_vars

----------------------------------------------------------------------------
(* The shared recharge of the ClientManager: requests of the nodes are     *)
(* accepted, started and processed while time passes, and hist keeps what  *)
(* the integrator has credited to the mirrors of the nodes since the last  *)
(* time every mirror was full (hist.since).                                *)

NoCredit == [since |-> 0, credit |-> 0]

\* every mirror is at its BufLimit: no node is recharging
AllFull == \A m \in Nodes : node[m].corrBufValue = node[m].params.BufLimit

\* what a step to w has credited to the mirror of node m, at least: the
\* rise of the mirror, for the node n of the operation less the change bvc
\* the operation itself makes (nothing is counted when the mirror was cut
\* at 0)
CreditedTo(w, m, n, bvc) ==
  IF m # n THEN Max(0, w.node[m].corrBufValue - node[m].corrBufValue)
  ELSE IF w.node[m].corrBufValue = 0 THEN 0
  ELSE Max(0, w.node[m].corrBufValue - node[m].corrBufValue - bvc)

RECURSIVE CreditedUpTo(_, _, _, _)
CreditedUpTo(w, k, n, bvc) ==
  IF k = 0 THEN 0 ELSE CreditedTo(w, k, n, bvc) + CreditedUpTo(w, k - 1, n, bvc)

CreditRecorded(w, n, bvc) ==
  hist' = [since  |-> IF AllFull THEN clock ELSE hist.since,
           credit |-> (IF AllFull THEN 0 ELSE hist.credit)
                        + CreditedUpTo(w, NumNodes, n, bvc)]

\* NewClientManager(RechargeParallelReqs, ., nil) and its nodes
InitRechargeWorld ==
  NewClientNodes([cm   |-> NewClientManager(RechargeParallelReqs, TotalRecharge, FALSE),
                  node |-> [n \in Nodes |-> NoClientNode],
                  ch   |-> NoChannels,
                  out  |-> NoRet],
                 1)

InitRecharge ==
  /\ clock = 0
  /\ ch = NoChannels
  /\ reqs = << >>
  /\ ret = NoRet
  /\ sn = NoServerNode
  /\ reqQ = << >>
  /\ replyQ = << >>
  /\ hist = NoCredit
  /\ vip = NewVipPool(totalBandwidth)
  /\ cm = InitRechargeWorld.cm
  /\ node = InitRechargeWorld.node

RechargeTick ==
  /\ clock < MaxClock
  /\ clock' = clock + 1
  /\ ret' = NoRet
  /\ UNCHANGED <<vip, node, cm, ch, reqs, sn, reqQ, replyQ, hist>>

\* AcceptRequest: a request served at once lowers the mirror by maxCost
RechargeAccepted(w, n, index, maxCost) ==
  /\ Install(w)
  /\ reqs' = IF w.out.accepted THEN Accepted(w, n, index, maxCost) ELSE reqs
  /\ CreditRecorded(w, n, IF w.out.accepted /\ w.ch[index] # "empty"
                          THEN -maxCost ELSE 0)
  /\ UNCHANGED <<vip, clock, sn, reqQ, replyQ>>

RechargeAcceptRequest ==
  \E n \in Nodes, maxCost \in {1, ManagerBufLimit - 1} :
     /\ Len(reqs) < MaxReqs
     /\ RechargeAccepted(
          AcceptRequest(W("AcceptRequest", n, Len(reqs) + 1, maxCost),
                        n, Len(reqs) + 1, maxCost, clock),
          n, Len(reqs) + 1, maxCost)

RechargeStepped(w, r, st, bvc) ==
  /\ Install(w)
  /\ reqs' = [reqs EXCEPT ![r].st = st]
  /\ CreditRecorded(w, reqs[r].n, bvc)
  /\ UNCHANGED <<vip, clock, sn, reqQ, replyQ>>

RechargeStarted ==
  \E r \in 1 .. Len(reqs) :
     /\ reqs[r].st = "waiting"
     /\ ch[r] = "true"
     /\ RechargeStepped(started(W("started", reqs[r].n, r, reqs[r].maxCost),
                                reqs[r].n, reqs[r].maxCost, clock),
                        r, "running", -reqs[r].maxCost)

\* RequestProcessed: the manager gives servingMaxCost - realCost back
RechargeRequestProcessed ==
  \E r \in 1 .. Len(reqs) :
     /\ reqs[r].st = "running"
     /\ RechargeStepped(RequestProcessed(W("RequestProcessed", reqs[r].n, r, reqs[r].maxCost),
                                         reqs[r].n, r, clock),
                        r, "done",
                        node[reqs[r].n].servingMaxCost
                          - processedRealCost(node[reqs[r].n], clock))

\* ClientManager.removeNode of node 1 (the nodes are alike), while it is
\* registered
RechargeRemoveNode ==
  /\ 1 \in cm.nodes
  /\ Install(removeNode(W("removeNode", 1, 0, 0), 1))
  /\ UNCHANGED <<vip, clock, reqs, sn, reqQ, replyQ, hist>>

NextRecharge ==
  \/ RechargeTick
  \/ RechargeAcceptRequest
  \/ RechargeStarted
  \/ RechargeRequestProcessed
  \/ RechargeRemoveNode

SpecRecharge == InitRecharge /\ [][NextRecharge]_vars

----------------------------------------------------------------------------
(* The scenario "reject then accept": one ClientNode with BufLimit         *)
(* 1_000_000 and MinRecharge 1000 per ms; requests of cost 10 and of the   *)
(* whole buffer.  One unit of the clock is 0.5 ms and time passes in steps *)
(* of ScenarioStep units.  hist.rejectedAt is the                          *)
(* time a request of cost 10 met an empty buffer (-1: none, or a request   *)
(* or completion came after it); hist.resubmitted: the last request was    *)
(* accepted 15 ms after that rejection.                                    *)

ScenarioParams == ServerParams(1000000, 1000)

ScenarioCosts == {10, ScenarioParams.BufLimit}

NoScenario == [rejectedAt |-> -1, resubmitted |-> FALSE]

InitScenarioWorld ==
  NewClientNode([cm   |-> NewClientManager(1, TotalRecharge, FALSE),
                 node |-> [n \in Nodes |-> NoClientNode],
                 ch   |-> NoChannels,
                 out  |-> NoRet],
                1, ScenarioParams, 0)

InitScenario ==
  /\ clock = 0
  /\ ch = NoChannels
  /\ reqs = << >>
  /\ ret = NoRet
  /\ sn = NoServerNode
  /\ reqQ = << >>
  /\ replyQ = << >>
  /\ hist = NoScenario
  /\ vip = NewVipPool(totalBandwidth)
  /\ cm = InitScenarioWorld.cm
  /\ node = InitScenarioWorld.node

ScenarioTick ==
  /\ clock + ScenarioStep <= ScenarioMaxClock
  /\ clock' = clock + ScenarioStep
  /\ UNCHANGED <<vip, node, cm, ch, reqs, ret, sn, reqQ, replyQ, hist>>

ScenarioAccepted(w, index, maxCost) ==
  /\ Install(w)
  /\ reqs' = IF w.out.accepted THEN Accepted(w, 1, index, maxCost) ELSE reqs
  /\ hist' = IF w.out.accepted
             THEN [rejectedAt  |-> -1,
                   resubmitted |-> /\ hist.rejectedAt >= 0
                                   /\ clock = hist.rejectedAt + 30
                                   /\ maxCost = 10]
             ELSE IF maxCost = 10 /\ w.out.bufShort = 10
             THEN [rejectedAt |-> clock, resubmitted |-> FALSE]
             ELSE hist
  /\ UNCHANGED <<vip, clock, sn, reqQ, replyQ>>

ScenarioAcceptRequest ==
  \E maxCost \in ScenarioCosts :
     /\ Len(reqs) < MaxReqs
     /\ ScenarioAccepted(
          AcceptRequest(W("AcceptRequest", 1, Len(reqs) + 1, maxCost),
                        1, Len(reqs) + 1, maxCost, clock),
          Len(reqs) + 1, maxCost)

ScenarioStarted ==
  \E r \in 1 .. Len(reqs) :
     /\ reqs[r].st = "waiting"
     /\ ch[r] = "true"
     /\ Install(started(W("started", 1, r, reqs[r].maxCost), 1, reqs[r].maxCost, clock))
     /\ reqs' = [reqs EXCEPT ![r].st = "running"]
     /\ hist' = NoScenario
     /\ UNCHANGED <<vip, clock, sn, reqQ, replyQ>>

ScenarioRequestProcessed ==
  \E r \in 1 .. Len(reqs) :
     /\ reqs[r].st = "running"
     /\ Install(RequestProcessed(W("RequestProcessed", 1, r, reqs[r].maxCost), 1, r, clock))
     /\ reqs' = [reqs EXCEPT ![r].st = "done"]
     /\ hist' = NoScenario
     /\ UNCHANGED <<vip, clock, sn, reqQ, replyQ>>

NextScenario ==
  \/ ScenarioTick
  \/ ScenarioAcceptRequest
  \/ ScenarioStarted
  \/ ScenarioRequestProcessed

SpecScenario == InitScenario /\ [][NextScenario]_vars

----------------------------------------------------------------------------
(* A ClientManager with a child manager: the parent is disabled and        *)
(* enabled while requests of its nodes are accepted and processed.         *)
(* hist.n counts the calls of setEnabled.                                  *)

InitTiersWorld ==
  NewClientNodes([cm   |-> NewClientManager(1, TotalRecharge, TRUE),
                  node |-> [n \in Nodes |-> NoClientNode],
                  ch   |-> NoChannels,
                  out  |-> NoRet],
                 1)

InitTiers ==
  /\ InitCommon
  /\ cm = InitTiersWorld.cm
  /\ node = InitTiersWorld.node

TiersTick ==
  /\ clock < MaxClock
  /\ clock' = clock + 1
  /\ ret' = NoRet
  /\ UNCHANGED <<vip, node, cm, ch, reqs, sn, reqQ, replyQ, hist>>

\* ClientManager.setEnabled(en) of the parent
TiersSetEnabled ==
  \E en \in BOOLEAN :
     /\ hist.n < MaxUpdates
     /\ cm' = setEnabled(cm, en)
     /\ ret' = [NoRet EXCEPT !.op = "setEnabled"]
     /\ hist' = [hist EXCEPT !.n = @ + 1]
     /\ UNCHANGED <<vip, clock, node, ch, reqs, sn, reqQ, replyQ>>

TiersAcceptRequest ==
  \E n \in 1 .. 2, maxCost \in {1, ManagerBufLimit - 1} :
     DoAcceptRequest(n, maxCost, MaxReqs)

TiersStarted == \E r \in 1 .. MaxReqs : DoStarted(r)

TiersRequestProcessed == \E r \in 1 .. MaxReqs : DoRequestProcessed(r)

NextTiers ==
  \/ TiersTick
  \/ TiersSetEnabled
  \/ TiersAcceptRequest
  \/ TiersStarted
  \/ TiersRequestProcessed

SpecTiers == InitTiers /\ [][NextTiers]_vars

----------------------------------------------------------------------------
(* One ClientNode and its manager under a clock that may go back: requests *)
(* are accepted, started and processed at times that are not ordered.      *)
(* hist.n counts the steps back of the clock.                              *)

RegressTick ==
  /\ clock < MaxClock
  /\ clock' = clock + 1
  /\ ret' = NoRet
  /\ UNCHANGED <<vip, node, cm, ch, reqs, sn, reqQ, replyQ, hist>>

\* the clock read by the next operation is earlier than the last one read
RegressBack ==
  /\ clock > 0
  /\ hist.n < MaxRegress
  /\ clock' = clock - 1
  /\ ret' = NoRet
  /\ hist' = [hist EXCEPT !.n = @ + 1]
  /\ UNCHANGED <<vip, node, cm, ch, reqs, sn, reqQ, replyQ>>

RegressAcceptRequest == \E maxCost \in {1, MaxCost} : DoAcceptRequest(1, maxCost, NodeMaxReqs)

RegressStarted == \E r \in 1 .. NodeMaxReqs : DoStarted(r)

RegressRequestProcessed == \E r \in 1 .. NodeMaxReqs : DoRequestProcessed(r)

NextRegress ==
  \/ RegressTick
  \/ RegressBack
  \/ RegressAcceptRequest
  \/ RegressStarted
  \/ RegressRequestProcessed

SpecRegress == InitNode /\ [][NextRegress]_vars

----------------------------------------------------------------------------
(* The shared recharge of two nodes: requests of nodes 1 and 2, up to      *)
(* RechargeParallelReqs of them in flight, while time passes.  hist.last   *)
(* is the time of the last operation of the manager that integrated.       *)

NoShare == [last |-> 0]

\* the other one of the nodes 1 and 2
Other(n) == 3 - n

Deficit(n) == node[n].params.BufLimit - node[n].corrBufValue

\* the time two draining nodes of rate MinRecharge take to make up d
ShareCrossing(d) ==
  TruncDiv(TruncDiv(d * rcTimeConst, node[1].params.MinRecharge)
             * 2 * node[1].params.MinRecharge, cm.totalRecharge)

\* nodes b and Other(b) are the draining nodes, both integrated at the last
\* operation of the manager, and Other(b) has no more to make up than b
ShareCase(b) ==
  /\ b \in {1, 2}
  /\ \A n \in Nodes : (node[n].corrBufValue < node[n].params.BufLimit) <=> n \in {1, 2}
  /\ node[1].rcLastIntValue = cm.rcLastIntValue
  /\ node[2].rcLastIntValue = cm.rcLastIntValue
  /\ cm.rcLastUpdate = hist.last
  /\ Deficit(Other(b)) <= Deficit(b)

ShareRecorded == hist' = [last |-> clock]

InitShare ==
  /\ clock = 0
  /\ ch = NoChannels
  /\ reqs = << >>
  /\ ret = NoRet
  /\ sn = NoServerNode
  /\ reqQ = << >>
  /\ replyQ = << >>
  /\ hist = NoShare
  /\ vip = NewVipPool(totalBandwidth)
  /\ cm = InitRechargeWorld.cm
  /\ node = InitRechargeWorld.node

ShareTick ==
  /\ clock < ShareMaxClock
  /\ clock' = clock + 1
  /\ UNCHANGED <<vip, node, cm, ch, reqs, ret, sn, reqQ, replyQ, hist>>

ShareAccepted(w, n, index, maxCost) ==
  /\ Install(w)
  /\ reqs' = IF w.out.accepted THEN Accepted(w, n, index, maxCost) ELSE reqs
  /\ IF w.out.accepted /\ w.ch[index] # "empty" THEN ShareRecorded ELSE hist' = hist
  /\ UNCHANGED <<vip, clock, sn, reqQ, replyQ>>

ShareAcceptRequest ==
  \E n \in {1, 2}, maxCost \in {1, ManagerBufLimit - 1} :
     /\ Len(reqs) < MaxReqs
     /\ ShareAccepted(
          AcceptRequest(W("AcceptRequest", n, Len(reqs) + 1, maxCost),
                        n, Len(reqs) + 1, maxCost, clock),
          n, Len(reqs) + 1, maxCost)

ShareStepped(w, r, st) ==
  /\ Install(w)
  /\ reqs' = [reqs EXCEPT ![r].st = st]
  /\ ShareRecorded
  /\ UNCHANGED <<vip, clock, sn, reqQ, replyQ>>

ShareStarted ==
  \E r \in 1 .. Len(reqs) :
     /\ reqs[r].st = "waiting"
     /\ ch[r] = "true"
     /\ ShareStepped(started(W("started", reqs[r].n, r, reqs[r].maxCost),
                             reqs[r].n, reqs[r].maxCost, clock),
                     r, "running")

ShareRequestProcessed ==
  \E r \in 1 .. Len(reqs) :
     /\ reqs[r].st = "running"
     /\ ShareStepped(RequestProcessed(W("RequestProcessed", reqs[r].n, r, reqs[r].maxCost),
                                      reqs[r].n, r, clock),
                     r, "done")

NextShare ==
  \/ ShareTick
  \/ ShareAcceptRequest
  \/ ShareStarted
  \/ ShareRequestProcessed

SpecShare == InitShare /\ [][NextShare]_vars

----------------------------------------------------------------------------
(* benchmarkCosts (les/benchmark.go): the linear cost function of one      *)
(* message class with bulk benchmarks, from cost, the greatest cost of its *)
(* single-item benchmarks, and maxCost, the greatest cost of its           *)
(* maxCount-item benchmarks.  hist holds the inputs, ret the result.       *)

\* maxCost after "if maxCost < cost { maxCost = cost }"
benchmarkBulk(cost, maxCost) == IF maxCost < cost THEN cost ELSE maxCost

\* dc := (maxCost - cost) / (m.maxCount - 1)
benchmarkDc(cost, bulk, maxCount) == Uint64Sub(bulk, cost) \div (maxCount - 1)

\* lines 408-419 of benchmarkCosts
benchmarkLinear(cost, bulk, maxCount) ==
  IF cost < benchmarkDc(cost, bulk, maxCount)
  THEN [BaseCost |-> Uint64Sub(bulk \div maxCount, bulk \div maxCount),
        ReqCost  |-> bulk \div maxCount]
  ELSE [BaseCost |-> Uint64Sub(cost, benchmarkDc(cost, bulk, maxCount)),
        ReqCost  |-> benchmarkDc(cost, bulk, maxCount)]

NoBenchRet == [op |-> "none", BaseCost |-> 0, ReqCost |-> 0]

InitBench ==
  /\ clock = 0
  /\ ch = NoChannels
  /\ reqs = << >>
  /\ ret = NoBenchRet
  /\ sn = NoServerNode
  /\ reqQ = << >>
  /\ replyQ = << >>
  /\ vip = NewVipPool(totalBandwidth)
  /\ cm = InitManagerWorld.cm
  /\ node = InitManagerWorld.node
  /\ hist \in [cost : 0 .. MaxBenchCost, maxCost : 0 .. MaxBenchCost,
               maxCount : 2 .. MaxBenchCount]

BenchCosts ==
  /\ ret.op = "none"
  /\ ret' = [op |-> "benchmarkCosts"]
              @@ benchmarkLinear(hist.cost, benchmarkBulk(hist.cost, hist.maxCost),
                                 hist.maxCount)
  /\ UNCHANGED <<vip, clock, node, cm, ch, reqs, sn, reqQ, replyQ, hist>>

NextBench == BenchCosts

SpecBench == InitBench /\ [][NextBench]_vars

----------------------------------------------------------------------------
(* Several requests of one node in flight: node 1 issues requests to a     *)
(* manager with RechargeParallelReqs slots.  hist keeps, for node 1, the   *)
(* time each request was started at, what the manager has taken from the   *)
(* mirror less what it has given back (debit), and the sum of the real     *)
(* costs of the completed requests, each from its own start and maxCost.   *)

NoFlight == [start |-> [i \in 1 .. MaxReqs |-> 0], debit |-> 0, real |-> 0]

InitFlight ==
  /\ clock = 0
  /\ ch = NoChannels
  /\ reqs = << >>
  /\ ret = NoRet
  /\ sn = NoServerNode
  /\ reqQ = << >>
  /\ replyQ = << >>
  /\ hist = NoFlight
  /\ vip = NewVipPool(totalBandwidth)
  /\ cm = InitRechargeWorld.cm
  /\ node = InitRechargeWorld.node

FlightTick ==
  /\ clock < ShareMaxClock
  /\ clock' = clock + 1
  /\ UNCHANGED <<vip, node, cm, ch, reqs, ret, sn, reqQ, replyQ, hist>>

FlightAccepted(w, index, maxCost) ==
  /\ Install(w)
  /\ reqs' = IF w.out.accepted THEN Accepted(w, 1, index, maxCost) ELSE reqs
  /\ hist' = IF w.out.accepted /\ w.ch[index] # "empty"
             THEN [hist EXCEPT !.start[index] = clock, !.debit = @ + maxCost]
             ELSE hist
  /\ UNCHANGED <<vip, clock, sn, reqQ, replyQ>>

FlightAcceptRequest ==
  \E maxCost \in {1, MaxCost} :
     /\ Len(reqs) < MaxReqs
     /\ FlightAccepted(
          AcceptRequest(W("AcceptRequest", 1, Len(reqs) + 1, maxCost),
                        1, Len(reqs) + 1, maxCost, clock),
          Len(reqs) + 1, maxCost)

FlightStarted ==
  \E r \in 1 .. Len(reqs) :
     /\ reqs[r].st = "waiting"
     /\ ch[r] = "true"
     /\ Install(started(W("started", 1, r, reqs[r].maxCost), 1, reqs[r].maxCost, clock))
     /\ reqs' = [reqs EXCEPT ![r].st = "running"]
     /\ hist' = [hist EXCEPT !.start[r] = clock, !.debit = @ + reqs[r].maxCost]
     /\ UNCHANGED <<vip, clock, sn, reqQ, replyQ>>

FlightRequestProcessed ==
  \E r \in 1 .. Len(reqs) :
     /\ reqs[r].st = "running"
     /\ Install(RequestProcessed(W("RequestProcessed", 1, r, reqs[r].maxCost), 1, r, clock))
     /\ reqs' = [reqs EXCEPT ![r].st = "done"]
     /\ hist' = [hist EXCEPT
                   !.debit = @ - (node[1].servingMaxCost - processedRealCost(node[1], clock)),
                   !.real = @ + Min(clock - hist.start[r], reqs[r].maxCost)]
     /\ UNCHANGED <<vip, clock, sn, reqQ, replyQ>>

NextFlight ==
  \/ FlightTick
  \/ FlightAcceptRequest
  \/ FlightStarted
  \/ FlightRequestProcessed

SpecFlight == InitFlight /\ [][NextFlight]_vars

----------------------------------------------------------------------------
(* Properties of one ClientNode (SpecNode).                                *)

\* the node integrated to the time of the operation that is starting
Integrated(n) == update(node[n], clock)

\* C2: for every ClientNode, after every operation (construction, parameter
\* update, accepted or rejected request, completion with the manager's lift,
\* scheduled parameter changes applied on the way), 0 <= bufValue <= BufLimit.
C2_BufValueWithinLimit ==
  \A n \in Nodes :
     node[n].created =>
        /\ 0 <= node[n].bufValue
        /\ node[n].bufValue <= node[n].params.BufLimit

\* a completion lifted the buffer value to the mirror after a scheduled change
\* of the parameters was applied
C2_Witness ==
  /\ ret.op = "RequestProcessed"
  /\ ret.lifted
  /\ ret.drops # {}
  /\ node[ret.n].bufValue = node[ret.n].params.BufLimit

\* C3: AcceptRequest with maxCost above the buffer value integrated to now
\* returns false and the deficit maxCost - bufValue, and changes nothing else:
\* sumCost, the accepted map and the manager's state (parallelReqs,
\* servingQueue, the node's mirror, the channels) stay as they were and
\* bufValue keeps its integrated value.
C3_RejectChangesNothing ==
  [][ (ret'.op = "AcceptRequest" /\ ret'.maxCost > Integrated(ret'.n).bufValue) =>
        /\ ~ret'.accepted
        /\ ret'.bufShort = ret'.maxCost - Integrated(ret'.n).bufValue
        /\ node' = [node EXCEPT ![ret'.n] = Integrated(ret'.n)]
        /\ node'[ret'.n].sumCost = node[ret'.n].sumCost
        /\ node'[ret'.n].accepted = node[ret'.n].accepted
        /\ node'[ret'.n].corrBufValue = node[ret'.n].corrBufValue
        /\ cm' = cm
        /\ ch' = ch
        /\ reqs' = reqs ]_vars

\* a request was rejected while another is accepted and not yet processed
C3_Witness ==
  /\ ret.op = "AcceptRequest"
  /\ ~ret.accepted
  /\ ret.bufShort > 0
  /\ DOMAIN node[ret.n].accepted # {}

\* C4: AcceptRequest with maxCost at most the buffer value integrated to now
\* returns true with deficit 0, takes exactly maxCost from bufValue, adds
\* exactly maxCost to sumCost and records accepted[index] = the new sumCost;
\* no step decreases sumCost.
C4_AcceptDebitsExactly ==
  [][ /\ (ret'.op = "AcceptRequest" /\ ret'.maxCost <= Integrated(ret'.n).bufValue) =>
          /\ ret'.accepted
          /\ ret'.bufShort = 0
          /\ node'[ret'.n].bufValue = Integrated(ret'.n).bufValue - ret'.maxCost
          /\ node'[ret'.n].sumCost = node[ret'.n].sumCost + ret'.maxCost
          /\ ret'.index \in DOMAIN node'[ret'.n].accepted
          /\ node'[ret'.n].accepted[ret'.index] = node'[ret'.n].sumCost
      /\ \A n \in Nodes : node'[n].sumCost >= node[n].sumCost ]_vars

\* a second request was accepted after the first
C4_Witness ==
  /\ ret.op = "AcceptRequest"
  /\ ret.accepted
  /\ ret.index = 2
  /\ node[ret.n].sumCost > ret.maxCost

\* C5: RequestProcessed of an accepted index returns the buffer value at that
\* moment plus the cost accepted since the index was accepted (sumCost now
\* less sumCost when it was accepted), and removes accepted[index].
C5_ReportedBufValue ==
  [][ ret'.op = "RequestProcessed" =>
        /\ ret'.index \in DOMAIN node[ret'.n].accepted
        /\ reqs[ret'.index].sumAt = node[ret'.n].accepted[ret'.index]
        /\ ret'.bv = node'[ret'.n].bufValue
                       + (node'[ret'.n].sumCost - reqs[ret'.index].sumAt)
        /\ ret'.index \notin DOMAIN node'[ret'.n].accepted ]_vars

\* the first request was processed after a second one was accepted
C5_Witness ==
  /\ ret.op = "RequestProcessed"
  /\ ret.index = 1
  /\ node[ret.n].sumCost > reqs[1].sumAt
  /\ ret.bv > node[ret.n].bufValue

\* the cost accepted on the node of request r after r was accepted
LaterCost(r) == node[reqs[r].n].sumCost - reqs[r].sumAt

\* C6 as stated: every value returned by RequestProcessed is at most BufLimit
C6_ReportedWithinLimit ==
  ret.op = "RequestProcessed" => ret.bv <= node[ret.n].params.BufLimit

\* C6: the value returned by RequestProcessed is at most BufLimit plus the
\* cost of the requests accepted after the one it replies to; it is at most
\* BufLimit when no later request was accepted.
C6_ReportedWithinLimitAndLaterCost ==
  ret.op = "RequestProcessed" =>
     /\ ret.bv <= node[ret.n].params.BufLimit + LaterCost(ret.index)
     /\ LaterCost(ret.index) = 0 => ret.bv <= node[ret.n].params.BufLimit

\* a reply above BufLimit: a later request was accepted and the buffer is full
C6_Witness ==
  /\ ret.op = "RequestProcessed"
  /\ LaterCost(ret.index) > 0
  /\ ret.bv = node[ret.n].params.BufLimit + LaterCost(ret.index)

----------------------------------------------------------------------------
(* Properties of the parameter updates of one ClientNode (SpecParams).     *)

\* C7: whenever the MinRecharge used for integration drops to a value v at a
\* time t, an UpdateParams call asking for a MinRecharge of at most v was made
\* at or before t - DecParamDelay; until then integration uses the higher rate.
C7_DecreaseAnnounced ==
  \A d \in ret.drops :
     \E c \in hist.calls : c.rate <= d.v /\ c.time + DecParamDelay <= d.t

\* a scheduled decrease was applied by an operation later than its time
C7_Witness ==
  /\ ret.drops # {}
  /\ \E d \in ret.drops : d.t < clock /\ node[1].params.MinRecharge = d.v

\* C8 as stated: once the last UpdateParams(new) call was immediate (its
\* MinRecharge at least the current one), or DecParamDelay has passed since it
\* and the node was updated, the node's params equal new; after an immediate
\* call the schedule is empty.
C8_LastRequestedApplied ==
  hist.n > 0 =>
     /\ hist.last.immediate =>
           (node[1].params = hist.last.params /\ node[1].updateSchedule = << >>)
     /\ node[1].lastTime >= hist.last.time + DecParamDelay =>
           node[1].params = hist.last.params

----------------------------------------------------------------------------
(* Properties of the ClientManager (SpecManager).                          *)

\* the requests that were started (admitted at once by accept, or told true
\* through their start token) and are not yet reported processed
StartedReqs ==
  { r \in 1 .. Len(reqs) :
      \/ reqs[r].st = "running"
      \/ reqs[r].st = "waiting" /\ ch[r] = "true" }

\* the mirror of a node and what accept and started write beside it
Mirror(nd) == <<nd.corrBufValue, nd.rcLastIntValue, nd.servingStarted, nd.servingMaxCost>>

\* C9: parallelReqs is the number of requests started and not yet reported
\* processed, and 0 <= parallelReqs <= maxParallelReqs; a request that arrives
\* when parallelReqs = maxParallelReqs is queued, and the mirror of its node is
\* not debited for it before it is started: a step lowers the mirror of a node
\* only by accepting a request of the node at once or by starting one.
C9_ParallelReqs ==
  /\ [](/\ cm.parallelReqs = Cardinality(StartedReqs)
        /\ 0 <= cm.parallelReqs
        /\ cm.parallelReqs <= cm.maxParallelReqs)
  /\ [][ /\ (/\ ret'.op = "AcceptRequest"
             /\ ret'.accepted
             /\ cm.parallelReqs = cm.maxParallelReqs) =>
               /\ Len(cm'.servingQueue) = Len(cm.servingQueue) + 1
               /\ ch'[ret'.index] = "empty"
               /\ cm'.parallelReqs = cm.parallelReqs
               /\ cm'.sumRecharge = cm.sumRecharge
               /\ Mirror(node'[ret'.n]) = Mirror(node[ret'.n])
         /\ \A n \in Nodes :
               node'[n].corrBufValue < node[n].corrBufValue =>
                  /\ ret'.n = n
                  /\ \/ ret'.op = "started"
                     \/ /\ ret'.op = "AcceptRequest"
                        /\ ret'.accepted
                        /\ cm.parallelReqs < cm.maxParallelReqs ]_vars

\* a queued request was started by a completion and debited afterwards, while
\* another request waits in the queue
C9_Witness ==
  /\ ret.op = "started"
  /\ cm.parallelReqs = cm.maxParallelReqs
  /\ Len(cm.servingQueue) > 0
  /\ node[ret.n].corrBufValue < node[ret.n].params.BufLimit

----------------------------------------------------------------------------
(* Property of the client and the server together (SpecLink).              *)

\* C1: with fixed ServerParams, requests and replies delivered in order, a
\* client that calls QueuedRequest only when CanSend has just returned 0 is
\* never rejected by the server's AcceptRequest: at every arrival the server's
\* integrated bufValue is at least maxCost.
C1_NeverRejected ==
  ret.op = "AcceptRequest" => (ret.accepted /\ ret.bufShort = 0)

----------------------------------------------------------------------------
(* Properties of the waiters of the ClientManager (SpecWaiters).           *)

\* the waiter of slot r holds a channel that has carried no value yet
Blocked(r) == reqs[r].st = "waiting" /\ ch[r] = "empty"

\* the last step queued a token, not that of slot r, of a node at least as
\* full as the node of slot r was
Overtaken(r) ==
  /\ ret.op = "AcceptRequest"
  /\ ret.accepted
  /\ ret.index # r
  /\ Blocked(ret.index)
  /\ reqs[ret.index].qBuf * reqs[r].qLim >= reqs[r].qBuf * reqs[ret.index].qLim

\* C11 as stated: every caller that was given a channel eventually receives a
\* value on it, when every started request is eventually reported processed.
C11_WaiterServed ==
  \A r \in 1 .. MaxTokens : Blocked(r) ~> ~Blocked(r)

\* C11: a channel carries one value, true when the node of its token is a
\* member at the time the token is popped and false when it is not; and a
\* caller that was given a channel eventually receives the value, or yet
\* another token of a node at least as full is queued: a waiter can block
\* forever only behind tokens without end that come after it.
C11_WaiterServedUnlessOvertaken ==
  /\ [][ \A r \in 1 .. MaxTokens :
           /\ (Blocked(r) /\ ~Blocked(r)') =>
                 /\ ret'.op = "RequestProcessed"
                 /\ reqs'[r].st = "waiting"
                 /\ ch'[r] = IF reqs[r].n \in cm.nodes THEN "true" ELSE "false"
           /\ (reqs[r].st = "waiting" /\ ch[r] \in {"true", "false"}) =>
                 (ch'[r] = ch[r] \/ reqs'[r].st # "waiting") ]_vars
  /\ \A r \in 1 .. MaxTokens : Blocked(r) ~> (~Blocked(r) \/ Overtaken(r))

\* a waiter has been told true after a token queued later was started first
C11_Witness ==
  \E r \in 1 .. MaxTokens :
     /\ reqs[r].st = "waiting"
     /\ ch[r] = "true"
     /\ ret.op = "RequestProcessed"
     /\ \E q \in 1 .. MaxTokens : q # r /\ Blocked(q) /\ reqs[q].qBuf < reqs[r].qBuf

----------------------------------------------------------------------------
\* the start tokens that a step has called
Told == {r \in 1 .. Len(reqs) : ch[r] = "empty" /\ ch'[r] # "empty"}

\* C12: a completion pops start tokens until one belongs to a member node:
\* every token it pops is told true when its node is a member and false when
\* it was removed (after Stop: every token false), at most one token is told
\* true and a token told false does not take the slot; the popped tokens
\* leave the queue. When a token is told true the slot is handed over and
\* parallelReqs is unchanged; when the queue is exhausted without one,
\* parallelReqs decreases by exactly 1.
C12_SlotHandover ==
  [][ ret'.op = "RequestProcessed" =>
        /\ \A r \in Told : ch'[r] = IF reqs[r].n \in cm.nodes THEN "true" ELSE "false"
        /\ \A a, b \in Told : (ch'[a] = "true" /\ ch'[b] = "true") => a = b
        /\ Len(cm'.servingQueue) = Len(cm.servingQueue) - Cardinality(Told)
        /\ \A r \in 1 .. Len(reqs) : ch[r] # "empty" => ch'[r] = ch[r]
        /\ IF \E r \in Told : ch'[r] = "true"
           THEN cm'.parallelReqs = cm.parallelReqs
           ELSE /\ cm'.parallelReqs = cm.parallelReqs - 1
                /\ Len(cm'.servingQueue) = 0 ]_vars

\* a completion has told the token of a removed node false and handed the
\* slot to the token of a member node
C12_Witness ==
  /\ ret.op = "RequestProcessed"
  /\ cm.parallelReqs = cm.maxParallelReqs
  /\ \E a, b \in 1 .. Len(reqs) :
        /\ ch[a] = "false" /\ reqs[a].n \notin cm.nodes
        /\ ch[b] = "true" /\ reqs[b].n \in cm.nodes /\ reqs[b].st = "waiting"

----------------------------------------------------------------------------
(* Properties of the pool of prioritized clients (SpecVip).                *)

\* the sum of the bandwidths of the clients 1 .. k of the pool
RECURSIVE SumBwUpTo(_, _)
SumBwUpTo(v, k) == IF k = 0 THEN 0 ELSE clientInfo(v, k).bw + SumBwUpTo(v, k - 1)

SumBw(v) == SumBwUpTo(v, NumClients)

\* the clients with a bandwidth
VipClients(v) == {id \in DOMAIN v.clients : v.clients[id].bw > 0}

\* C13: after every successful SetClientBandwidth, whatever bandwidth was
\* asked for, the sum of the bandwidths of the clients is totalVipBw and is
\* at most totalBw.
C13_SumWithinTotal ==
  (ret.op = "SetClientBandwidth" /\ ret.err = "nil") =>
     /\ SumBw(vip) = vip.totalVipBw
     /\ SumBw(vip) <= vip.totalBw

\* C14: SetClientBandwidth(id, bw) returns ErrMinBW when bw is not 0 and
\* below minBandwidth, and ErrTotalBW when totalVipBw + bw less the bandwidth
\* id has exceeds totalBw; a call that returns an error leaves the pool as it
\* was and invokes neither the updateBw hook nor setConnLimit.
C14_ErrorsReturned ==
  [][ ret'.op = "SetClientBandwidth" =>
        /\ (ret'.bw # 0 /\ ret'.bw < minBandwidth) => ret'.err = "ErrMinBW"
        /\ (/\ ~(ret'.bw # 0 /\ ret'.bw < minBandwidth)
            /\ vip.totalVipBw + ret'.bw - clientInfo(vip, ret'.id).bw > vip.totalBw) =>
              ret'.err = "ErrTotalBW"
        /\ ret'.err # "nil" =>
              /\ vip' = vip
              /\ ret'.hook = 0
              /\ ret'.connLimit = << >> ]_vars

\* C15: after every call vipCount is the number of clients whose bandwidth
\* is above 0.
C15_VipCount == vip.vipCount = Cardinality(VipClients(vip))

\* C16: SetClientBandwidth invokes the updateBw hook of the client and
\* setConnLimit only if the client is connected.
C16_HookOnlyConnected ==
  [][ (/\ ret'.op = "SetClientBandwidth"
       /\ (ret'.hook # 0 \/ ret'.connLimit # << >>)) =>
         clientInfo(vip, ret'.id).connected ]_vars

\* C17: connect of a client that is connected returns ok = false and changes
\* nothing: the pool, with the entry of the client and the hook of its first
\* connect, is as before, and setConnLimit is not called.
C17_DuplicateConnect ==
  [][ (ret'.op = "connect" /\ clientInfo(vip, ret'.id).connected) =>
        /\ ~ret'.ok
        /\ ret'.guaranteedBw = 0
        /\ vip' = vip
        /\ ret'.connLimit = << >>
        /\ ret'.hook = 0 ]_vars

\* a connect with another hook was refused for a connected client with a
\* bandwidth
C17_Witness ==
  /\ ret.op = "connect"
  /\ ~ret.ok
  /\ clientInfo(vip, ret.id).connected
  /\ clientInfo(vip, ret.id).bw > 0
  /\ clientInfo(vip, ret.id).updateBw # ret.updateBw

\* the last call was disconnect(id) and the call before it a successful
\* connect(id)
ConnectThenDisconnect ==
  /\ ret.op = "disconnect"
  /\ ret.before.op = "connect"
  /\ ret.before.ok
  /\ ret.before.id = ret.id

\* C18: disconnect(id) straight after a successful connect(id) restores
\* vipCount and totalConnectedBw to their values before the connect, leaves
\* the client not connected, leaves no entry for a client without bandwidth
\* and keeps the entry, with its bandwidth, of a client with one.
C18_DisconnectInverse ==
  ConnectThenDisconnect =>
     /\ vip.vipCount = ret.before.vipCount
     /\ vip.totalConnectedBw = ret.before.totalConnectedBw
     /\ ~clientInfo(vip, ret.id).connected
     /\ IF clientInfo(ret.pre, ret.id).bw = 0
        THEN ret.id \notin DOMAIN vip.clients
        ELSE /\ ret.id \in DOMAIN vip.clients
             /\ vip.clients[ret.id].bw = clientInfo(ret.pre, ret.id).bw

\* a client with a bandwidth was connected and disconnected
C18_Witness ==
  /\ ConnectThenDisconnect
  /\ clientInfo(ret.pre, ret.id).bw > 0

----------------------------------------------------------------------------
(* Properties of one ServerNode (SpecServer).                              *)

\* C19: after every operation, in any order and with any maxCost, the
\* estimate of the buffer is at most the BufLimit of the parameters.
C19_EstimateWithinLimit == sn.bufEstimate <= sn.params.BufLimit

\* C20: when CanSend(maxCost) has returned a waiting time w > 0 at time t and
\* no QueuedRequest, ReceivedReply or UpdateParams was called since, a
\* CanSend(maxCost) at a time of at least t + w returns 0, whether or not
\* the estimate is recharging.
C20_WaitSuffices ==
  [][ (/\ ret.op = "CanSend"
       /\ ret.wait > 0
       /\ ret'.op = "CanSend"
       /\ ret'.maxCost = ret.maxCost
       /\ ret'.time >= ret.time + ret.wait) => ret'.wait = 0 ]_vars

\* a step of ReceivedReply(ret'.reqID, ret'.bv): time stands still and the
\* last call is a reply
ReplyStep == ret'.op = "ReceivedReply" /\ clock' = clock

\* C21: ReceivedReply(reqID, bv) for a pending reqID sets bufEstimate to
\* min(bv, BufLimit) less the cost queued after that request, or to 0 when
\* that is negative, bufRecharge to bufEstimate < BufLimit and lastTime to
\* now, and removes the pending entry; when the request is the one queued
\* last and the only one outstanding and bv is within BufLimit, bufEstimate
\* is bv.
C21_ReplySetsEstimate ==
  [][ (ReplyStep /\ ret'.reqID \in DOMAIN sn.pending) =>
        /\ sn'.bufEstimate =
             IF ReceivedReplyBv(sn, ret'.bv) > sn.sumCost - sn.pending[ret'.reqID]
             THEN ReceivedReplyBv(sn, ret'.bv) - (sn.sumCost - sn.pending[ret'.reqID])
             ELSE 0
        /\ sn'.bufRecharge = (sn'.bufEstimate < sn.params.BufLimit)
        /\ sn'.lastTime = clock
        /\ DOMAIN sn'.pending = DOMAIN sn.pending \ {ret'.reqID}
        /\ \A i \in DOMAIN sn'.pending : sn'.pending[i] = sn.pending[i]
        /\ sn'.sumCost = sn.sumCost
        /\ sn'.params = sn.params
        /\ (/\ DOMAIN sn.pending = {ret'.reqID}
            /\ ret'.reqID = hist.n
            /\ ret'.bv <= sn.params.BufLimit) =>
              sn'.bufEstimate = ret'.bv ]_vars

\* the reply of the first of two outstanding requests has set the estimate
\* to the buffer value less the cost of the second
C21_Witness ==
  /\ ret.op = "ReceivedReply"
  /\ ret.reqID = 1
  /\ DOMAIN sn.pending = {2}
  /\ sn.bufEstimate > 0
  /\ sn.bufEstimate < ret.bv
  /\ sn.bufRecharge
  /\ sn.lastTime > 0

\* C22 as stated: a ReceivedReply for a reqID that is not pending leaves
\* bufEstimate, bufRecharge, lastTime, sumCost and pending as they were.
C22_UnknownReplyNoOp ==
  [][ (ReplyStep /\ ret'.reqID \notin DOMAIN sn.pending) =>
        sn' = sn ]_vars

\* C22: a ReceivedReply for a reqID that is not pending leaves sumCost,
\* pending and the parameters as they were and changes bufEstimate,
\* bufRecharge and lastTime only by the integration up to now, as a CanSend
\* at that time does; a further reply for it at the same time changes
\* nothing more.
C22_UnknownReplyIntegratesOnly ==
  [][ (ReplyStep /\ ret'.reqID \notin DOMAIN sn.pending) =>
        /\ sn' = recalcBLE(sn, clock)
        /\ sn'.sumCost = sn.sumCost
        /\ sn'.pending = sn.pending
        /\ recalcBLE(sn', clock) = sn' ]_vars

\* a reply for a request that was never queued came while the estimate was
\* recharging after the reply of another
C22_Witness ==
  /\ ret.op = "ReceivedReply"
  /\ ret.reqID > hist.n
  /\ ret.bv > 0
  /\ sn.bufRecharge
  /\ sn.bufEstimate > 0
  /\ sn.lastTime = clock
  /\ clock > 0

----------------------------------------------------------------------------
(* Properties of idle nodes (SpecIdle).                                    *)

\* the buffer value the ClientNode holds at time 0
IdleBufValue0 ==
  node[1].params.BufLimit - (IF Len(reqs) = 0 THEN 0 ELSE reqs[1].maxCost)

\* the time by which the buffer is to be full again
IdleFullBy ==
  ((node[1].params.BufLimit - IdleBufValue0) * fcTimeConst) \div node[1].params.MinRecharge
    + fcTimeConst

\* C23: a ClientNode that holds bufValue0 at time 0 and accepts no request
\* afterwards is found with bufValue = BufLimit by every integration at or
\* after (BufLimit - bufValue0) x fcTimeConst / MinRecharge + fcTimeConst,
\* whatever integrations were made before (the clock never going back).
C23_IdleRecharge ==
  (/\ ret.op = "update"
   /\ hist.n = 0
   /\ node[1].lastTime = clock
   /\ clock >= IdleFullBy) => node[1].bufValue = node[1].params.BufLimit

\* C24: an integration of a ClientNode or of a ServerNode at a time before
\* lastTime leaves the buffer value as it was.
C24_RegressionAbsorbed ==
  [][ /\ (ret'.op = "update" /\ clock' = clock /\ clock < node[1].lastTime) =>
            node'[1].bufValue = node[1].bufValue
      /\ (ret'.op = "CanSend" /\ clock' = clock /\ clock < sn.lastTime) =>
            sn'.bufEstimate = sn.bufEstimate ]_vars

\* the ClientNode, partly recharged, was integrated at a time before its
\* lastTime
C24_Witness ==
  /\ ret.op = "update"
  /\ ret.lastTime > clock
  /\ node[1].lastTime = clock
  /\ ret.value > IdleBufValue0
  /\ ret.value < node[1].params.BufLimit
  /\ node[1].bufValue = ret.value

----------------------------------------------------------------------------
(* Properties of the shared recharge (SpecRecharge).                       *)

\* C25: over any interval of length dt the integrator credits to the
\* mirrors of all nodes together at most totalRecharge x dt / fcTimeConst:
\* what was credited since the last time every mirror was full is within
\* that bound for the time passed since.
C25_Conservation ==
  hist.credit * fcTimeConst <= cm.totalRecharge * (clock - hist.since)

----------------------------------------------------------------------------
(* Properties of the scenario "reject then accept" (SpecScenario).         *)

\* a step of AcceptRequest of cost 10, 15 ms after the rejection by the
\* empty buffer, with nothing but time in between
ScenarioResubmitStep ==
  /\ ret'.op = "AcceptRequest"
  /\ ret'.maxCost = 10
  /\ clock' = clock
  /\ hist.rejectedAt >= 0
  /\ clock = hist.rejectedAt + 30

\* a rejected request of cost 10 on the drained node
ScenarioRejectStep ==
  /\ ret'.op = "AcceptRequest"
  /\ ret'.maxCost = 10
  /\ clock' = clock
  /\ hist' # hist
  /\ update(node[1], clock).bufValue = 0

\* C26 as stated: the drained client is refused with (false, 10), and the
\* same request 15 ms later is accepted with (true, 0) and leaves bufValue
\* at 14_000.
C26_RejectThenAccept14000 ==
  [][ /\ ScenarioRejectStep => ~ret'.accepted /\ ret'.bufShort = 10
      /\ ScenarioResubmitStep =>
           ret'.accepted /\ ret'.bufShort = 0 /\ node'[1].bufValue = 14000 ]_vars

\* C26 (amended): the drained client is refused with (false, 10), and the
\* same request 15 ms later is accepted with (true, 0) and leaves bufValue
\* at 14_990: 15 ms of recharge at 1000 per ms less the cost of 10.
C26_RejectThenAccept ==
  [][ /\ ScenarioRejectStep => ~ret'.accepted /\ ret'.bufShort = 10
      /\ ScenarioResubmitStep =>
           ret'.accepted /\ ret'.bufShort = 0 /\ node'[1].bufValue = 14990 ]_vars

C26_Witness ==
  /\ hist.resubmitted
  /\ ret.op = "AcceptRequest"
  /\ ret.accepted
  /\ ret.maxCost = 10
  /\ clock = 30
  /\ node[1].lastTime = 30
  /\ node[1].sumCost = ScenarioParams.BufLimit + 10

----------------------------------------------------------------------------
(* Properties of the manager with a child (SpecTiers).                     *)

\* C27 as stated: disabling the parent enables the child once the parent
\* has no request in flight, and enabling the parent again disables the
\* child.
C27_DisableEnablesChild ==
  [][ /\ (cm.enabled /\ ~cm'.enabled /\ cm'.parallelReqs = 0) => cm'.childEnabled
      /\ (~cm'.enabled /\ cm.parallelReqs > 0 /\ cm'.parallelReqs = 0)
            => cm'.childEnabled
      /\ (~cm.enabled /\ cm'.enabled) => ~cm'.childEnabled ]_vars

\* C27 (amended): the child is enabled exactly while the parent is enabled
\* and has no request in flight.  Disabling the parent disables the child
\* (at once when the parent has no request in flight; the child is disabled
\* already when it has) and the child stays disabled while the parent is;
\* enabling the parent again enables the child, once the parent has no
\* request in flight.
C27_ChildFollowsParent ==
  cm.childEnabled <=> (cm.enabled /\ cm.parallelReqs = 0)

\* the parent has been disabled and enabled again, has served a request and
\* is idle: the child is enabled again
C27_Witness ==
  /\ hist.n >= 2
  /\ ret.op = "setEnabled"
  /\ cm.enabled
  /\ cm.parallelReqs = 0
  /\ cm.childEnabled
  /\ \E r \in 1 .. Len(reqs) : reqs[r].st = "done"

----------------------------------------------------------------------------
(* The order of the scheduled parameter updates (SpecParams).              *)

\* C28: updateSchedule is strictly decreasing in MinRecharge and
\* non-decreasing in time, and every scheduled MinRecharge is below the
\* MinRecharge in force.
C28_ScheduleOrdered ==
  LET sched == node[1].updateSchedule
  IN  /\ \A i \in 1 .. Len(sched) :
            sched[i].params.MinRecharge < node[1].params.MinRecharge
      /\ \A i \in 1 .. Len(sched) - 1 :
            /\ sched[i].params.MinRecharge > sched[i + 1].params.MinRecharge
            /\ sched[i].time <= sched[i + 1].time

\* two decreases are scheduled, the second later than the first
C28_Witness ==
  /\ ret.op = "UpdateParams"
  /\ Len(node[1].updateSchedule) >= 2
  /\ node[1].updateSchedule[1].time < node[1].updateSchedule[2].time

----------------------------------------------------------------------------
(* The real cost of a request (SpecRegress).                               *)

\* a step of RequestProcessed
CompletionStep == ret'.op = "RequestProcessed" /\ clock' = clock /\ reqs' # reqs

\* C29: on completion realCost = clamp(now - servingStarted, 0,
\* servingMaxCost): it is within 0 .. servingMaxCost, it is 0 when now <=
\* servingStarted, and the refund servingMaxCost - realCost is within
\* 0 .. servingMaxCost.
C29_RealCostClamped ==
  [][ CompletionStep =>
        LET nd       == node[ret'.n]
            realCost == processedRealCost(nd, clock)
        IN  /\ 0 <= realCost
            /\ realCost <= nd.servingMaxCost
            /\ clock <= nd.servingStarted => realCost = 0
            /\ 0 <= nd.servingMaxCost - realCost
            /\ nd.servingMaxCost - realCost <= nd.servingMaxCost ]_vars

----------------------------------------------------------------------------
(* The lift of the buffer value to the mirror (SpecNode).                  *)

\* C30: after every completion handled by the manager the bufValue of the
\* node is at least its mirror corrBufValue: a mirror above the buffer
\* value (as integrated by the node at the time of the completion) raises
\* it to exactly the mirror, otherwise it is unchanged; it is never lowered.
C30_LiftToMirror ==
  [][ CompletionStep =>
        LET before == update(node[ret'.n], clock).bufValue
            after  == node'[ret'.n]
        IN  /\ after.bufValue >= after.corrBufValue
            /\ after.bufValue >= before
            /\ ret'.lifted <=> after.corrBufValue > before
            /\ ret'.lifted => after.bufValue = after.corrBufValue
            /\ ~ret'.lifted => after.bufValue = before ]_vars

\* a completion has raised the buffer value to the mirror, below BufLimit
C30_Witness ==
  /\ ret.op = "RequestProcessed"
  /\ ret.lifted
  /\ node[ret.n].bufValue = node[ret.n].corrBufValue
  /\ node[ret.n].bufValue < node[ret.n].params.BufLimit

----------------------------------------------------------------------------
(* The draining set of the manager (SpecRecharge).                         *)

\* the nodes whose mirror is below BufLimit
Draining == { n \in Nodes : node[n].created /\ node[n].corrBufValue < node[n].params.BufLimit }

RECURSIVE SumMinRechargeUpTo(_)
SumMinRechargeUpTo(k) ==
  IF k = 0 THEN 0
  ELSE (IF k \in Draining THEN node[k].params.MinRecharge ELSE 0) + SumMinRechargeUpTo(k - 1)

\* C31: between the operations of the manager sumRecharge is the sum of
\* MinRecharge over the nodes whose mirror is below BufLimit: 0 when there
\* is none, and never wrapped below 0.
C31_SumRechargeOfDraining ==
  /\ cm.sumRecharge = SumMinRechargeUpTo(NumNodes)
  /\ Draining = {} => cm.sumRecharge = 0

\* two nodes are draining, one of them removed from the manager, after a
\* completion
C31_Witness ==
  /\ ret.op = "RequestProcessed"
  /\ Cardinality(Draining) >= 2
  /\ Draining \ cm.nodes # {}
  /\ cm.sumRecharge >= 2

\* the nodes that have an entry in rcQueue
Queued == { cm.rcQueue[i].n : i \in 1 .. Len(cm.rcQueue) }

\* C32: between the operations of the manager the nodes with an entry in
\* rcQueue are exactly the nodes whose mirror is below BufLimit.
C32_QueueIsDraining == Queued = Draining

----------------------------------------------------------------------------
(* The rate of the shared recharge (SpecShare).                            *)

\* what two draining nodes of the same MinRecharge have each been credited
\* after dt, when one of them had d to make up: totalRecharge / 2 per
\* fcTimeConst each while both drain, totalRecharge per fcTimeConst for the
\* one left after the crossing
ShareCredit(dt, d) ==
  IF dt < ShareCrossing(d)
  THEN TruncDiv(TruncDiv(cm.totalRecharge * dt, 2 * node[1].params.MinRecharge)
                  * node[1].params.MinRecharge, fcTimeConst)
  ELSE TruncDiv((TruncDiv(d * rcTimeConst, node[1].params.MinRecharge)
                   + TruncDiv(cm.totalRecharge * (dt - ShareCrossing(d)),
                              node[1].params.MinRecharge))
                  * node[1].params.MinRecharge, fcTimeConst)

\* the change an operation makes to the mirror of its node, after the recharge
ShareChange ==
  IF ret'.op = "RequestProcessed"
  THEN node[ret'.n].servingMaxCost - processedRealCost(node[ret'.n], clock)
  ELSE -ret'.maxCost

\* an operation that integrates the mirror of its node
ShareStep ==
  /\ clock' = clock
  /\ reqs' # reqs
  /\ ~(ret'.op = "AcceptRequest" /\ ch'[ret'.index] = "empty")

\* C33: two draining nodes of the same MinRecharge each climb at
\* totalRecharge / 2 per fcTimeConst; when one of them reaches BufLimit
\* within the interval integrated, it is made full and leaves sumRecharge,
\* and the other climbs at totalRecharge per fcTimeConst for the rest of
\* the interval.
C33_SharedRate ==
  [][ (ShareStep /\ ShareCase(ret'.n)) =>
        LET b  == ret'.n
            a  == Other(ret'.n)
            dt == clock - hist.last
        IN  /\ node'[b].corrBufValue =
                 Min(node[b].params.BufLimit,
                     Max(0, Min(node[b].params.BufLimit,
                                node[b].corrBufValue + ShareCredit(dt, Deficit(a)))
                            + ShareChange))
            /\ dt >= ShareCrossing(Deficit(a)) =>
                 node'[a].corrBufValue = node[a].params.BufLimit
            /\ dt < ShareCrossing(Deficit(a)) =>
                 node'[a].corrBufValue = node[a].corrBufValue ]_vars

----------------------------------------------------------------------------
(* The linear cost function of benchmarkCosts (SpecBench).                 *)

\* C34: with single the greatest single-item cost and bulk the greater of
\* it and the greatest maxCount-item cost, BaseCost + ReqCost >= single and
\* BaseCost + maxCount x ReqCost >= bulk, within 64 bits.
C34_CostUpperBound ==
  ret.op = "benchmarkCosts" =>
    /\ ret.BaseCost + ret.ReqCost >= hist.cost
    /\ ret.BaseCost + hist.maxCount * ret.ReqCost
         >= benchmarkBulk(hist.cost, hist.maxCost)
    /\ ret.BaseCost + hist.maxCount * ret.ReqCost < Uint64Mod

----------------------------------------------------------------------------
(* Requests of one node in flight together (SpecFlight).                   *)

\* C35: when all the requests of the node have completed, what the manager
\* has taken from its mirror, recharge and the cuts at 0 and BufLimit left
\* aside, is the sum of the real costs of the requests, each counted from
\* its own start time and cut at its own maxCost.
C35_DebitIsRealCost ==
  (Len(reqs) > 0 /\ \A r \in 1 .. Len(reqs) : reqs[r].st = "done")
     => hist.debit = hist.real

----------------------------------------------------------------------------
(* Integrations of a ClientNode under a clock that goes back (SpecIdle).   *)

\* C36: lastTime of the ClientNode never decreases, and what has been
\* credited to bufValue since the request at time 0 is at most MinRecharge x
\* (the largest value the clock has shown - 0) / fcTimeConst.
C36_NoIntervalTwice ==
  [][ /\ node'[1].lastTime >= node[1].lastTime
      /\ Len(reqs') > 0 =>
           (node'[1].bufValue - (node'[1].params.BufLimit - reqs'[1].maxCost)) * fcTimeConst
              <= node'[1].params.MinRecharge * hist'.last.time ]_vars

----------------------------------------------------------------------------
(* The shared integrator of the ClientManager (SpecRecharge).              *)

\* C37: across every updateRecharge and updateNodeRc, rcLastIntValue and
\* rcLastUpdate of the manager do not decrease and rcLastUpdate is at most
\* the present time, also with entries in rcQueue of nodes that are full.
C37_IntegratorForward ==
  [][ /\ cm'.rcLastIntValue >= cm.rcLastIntValue
      /\ cm'.rcLastUpdate >= cm.rcLastUpdate
      /\ cm'.rcLastUpdate <= clock' ]_vars

----------------------------------------------------------------------------
(* The child of a two-tier ClientManager (SpecTiers).                      *)

\* C38: after every setEnabled call on the parent and after every change
\* of the parent's parallelReqs, the child is enabled if and only if the
\* parent is enabled and the parent's parallelReqs is 0.
C38_ChildAfterEachCall ==
  [][ (ret'.op = "setEnabled" \/ cm'.parallelReqs # cm.parallelReqs)
        => (cm'.childEnabled = (cm'.enabled /\ cm'.parallelReqs = 0)) ]_vars

\* the parent was enabled again while it served a request, the child stayed
\* disabled; and the parent finished a request while it was disabled, the
\* child stayed disabled
C38_Witness ==
  /\ hist.n >= 2
  /\ ~cm.childEnabled
  /\ \/ ret.op = "setEnabled" /\ cm.enabled /\ cm.parallelReqs > 0
     \/ ret.op = "RequestProcessed" /\ ~cm.enabled /\ cm.parallelReqs = 0

----------------------------------------------------------------------------
(* The bandwidth of the connected clients of the pool (SpecVip).           *)

\* the sum of the bandwidths of the connected clients among 1 .. k
RECURSIVE SumConnectedBwUpTo(_, _)
SumConnectedBwUpTo(v, k) ==
  IF k = 0 THEN 0
  ELSE (IF clientInfo(v, k).connected THEN clientInfo(v, k).bw ELSE 0)
         + SumConnectedBwUpTo(v, k - 1)

\* C39: after any sequence of SetClientBandwidth, connect and disconnect,
\* totalConnectedBw is the sum of the bandwidths of the clients marked
\* connected.
C39_ConnectedBwIsSum ==
  vip.totalConnectedBw = SumConnectedBwUpTo(vip, NumClients)

----------------------------------------------------------------------------
(* CanSend and the request queued after it (SpecServer).                   *)

\* C40: whenever CanSend(maxCost) has returned the waiting time 0, the
\* estimate of the buffer is at least maxCost, for every maxCost, so that a
\* QueuedRequest(maxCost) called next at the same time leaves an estimate
\* that has not wrapped around.
C40_NoWaitCovers ==
  (ret.op = "CanSend" /\ ret.wait = 0 /\ ret.time = clock) =>
     /\ sn.bufEstimate >= ret.maxCost
     /\ QueuedRequest(sn, hist.n + 1, ret.maxCost, clock).bufEstimate
           = sn.bufEstimate - ret.maxCost

=============================================================================
